---- MODULE Spec2Model ----
(***************************************************************************)
(* Flow execution engine of QuickScope: slot addressing (path read and     *)
(* path write), the tolerant yes/no classifier, the stage advancer and the *)
(* per-turn control loop (load, ingest, auto-advance, render).             *)
(***************************************************************************)
EXTENDS Integers, Sequences, FiniteSets, TLC

(***************************************************************************)
(* State.  Each specification of this module drives one group of the       *)
(* variables and leaves the other groups at their idle values.             *)
(***************************************************************************)
VARIABLES
    \* SpecWrite: the structure before the series of writes, as it is now and
    \* before the last write; the path; the values written; the outcomes
    wdata0, wcur, wprev, wpath, wvals, wsts,
    \* SpecYN: the response, the confirm stage, the stage id returned
    yresp, ystage, ynext, ydone,
    \* SpecAA: the flow's stage list, the step budget, the locals of the
    \* auto-advance loop, "loop" or "done", and what the node returned
    aflow, amax, alocal, apc, aout,
    \* SpecTurn: the session state, the session state as the running turn
    \* received it, the node to run next ("rest" between turns), the number
    \* of turns started
    session, before, pc, turns,
    \* SpecGate: the gate stage, the slots, the stage id returned
    gstage, gslots, gnext, gdone,
    \* SpecNode: the flow registry, the state a node receives, the node, the
    \* failure the state was built to make the node meet ("" for none), the
    \* state with the node's updates merged
    nflows, nstate, nnode, nfail, nout, ndone,
    \* SpecClarify: the answer, the condition, what _should_clarify returned
    ctext, ccond, cres, cdone,
    \* SpecRound: a session kept in memory, its copy that is saved to JSON and
    \* loaded again before every turn, the number of turns run
    rlive, rcopy, rturns,
    \* SpecSessions: the loader's cache of flow definitions; per session its
    \* state, whether the objects in its slots are the cached template's own,
    \* and the inputs it has received
    qcache, qsess, qshared, qin,
    \* SpecRender: the pieces a template text is made of, the slots, the
    \* result of TemplateRenderer.render on them and whether it has run
    tpieces, tslots, tout, tdone,
    \* SpecConfirm: a session at a confirmation, as the running turn received
    \* it, and the number of answers given to the confirmation
    ksess, kbefore, kturns,
    \* SpecLoop: a loop stage, two slot structures, the stage auto-advance
    \* goes to from the loop stage on each, and whether it has run
    lstage, lslots, lroute, ldone,
    \* SpecWorkflow: a session of the step capture flow, as the running turn
    \* received it and as the turn's auto_advance_node received it, and the
    \* number of turns
    xsess, xbefore, xauto, xturns

wvars == <<wdata0, wcur, wprev, wpath, wvals, wsts>>
yvars == <<yresp, ystage, ynext, ydone>>
avars == <<aflow, amax, alocal, apc, aout>>
svars == <<session, before, pc, turns>>
gvars == <<gstage, gslots, gnext, gdone>>
nvars == <<nflows, nstate, nnode, nfail, nout, ndone>>
cvars == <<ctext, ccond, cres, cdone>>
rvars == <<rlive, rcopy, rturns>>
qvars == <<qcache, qsess, qshared, qin>>
tvars == <<tpieces, tslots, tout, tdone>>
kvars == <<ksess, kbefore, kturns>>
lvars == <<lstage, lslots, lroute, ldone>>
xvars == <<xsess, xbefore, xauto, xturns>>
vars == <<wvars, yvars, avars, svars, gvars, nvars, cvars, rvars, qvars, tvars, kvars, lvars, xvars>>

(***************************************************************************)
(* Slot data.  A Python value is a record [k, v]: k is the kind and v the  *)
(* payload.  The kind is compared first, so values of two kinds are never  *)
(* compared by payload.                                                    *)
(***************************************************************************)
NoneV == [k |-> "none", v |-> 0]
Str(s) == [k |-> "str", v |-> s]
Num(n) == [k |-> "int", v |-> n]
List(q) == [k |-> "list", v |-> q]
Dict(f) == [k |-> "dict", v |-> f]
EmptyMap == [x \in {} |-> NoneV]
EmptyDict == Dict(EmptyMap)
EmptyList == List(<<>>)

\* the variables of a specification that is not running keep these values
IdleWrite ==
    /\ wdata0 = EmptyDict /\ wcur = EmptyDict /\ wprev = EmptyDict
    /\ wpath = <<>> /\ wvals = <<>> /\ wsts = <<>>
IdleYN == yresp = "" /\ ystage = [id |-> ""] /\ ynext = "" /\ ydone = FALSE
IdleTurn == session = [flow_id |-> ""] /\ before = [flow_id |-> ""] /\ pc = "" /\ turns = 0
IdleGate == gstage = [id |-> ""] /\ gslots = NoneV /\ gnext = "" /\ gdone = FALSE
IdleNode ==
    /\ nflows = <<>> /\ nstate = [flow_id |-> ""] /\ nnode = "" /\ nfail = ""
    /\ nout = [flow_id |-> ""] /\ ndone = FALSE
IdleClarify == ctext = "" /\ ccond = "" /\ cres = FALSE /\ cdone = FALSE
IdleRound == rlive = [flow_id |-> ""] /\ rcopy = [flow_id |-> ""] /\ rturns = 0
IdleSessions == qcache = <<>> /\ qsess = <<>> /\ qshared = <<>> /\ qin = <<>>
IdleRender == tpieces = <<>> /\ tslots = NoneV /\ tout = "" /\ tdone = FALSE
IdleLoop == lstage = [id |-> ""] /\ lslots = <<>> /\ lroute = <<>> /\ ldone = FALSE
IdleWorkflow ==
    xsess = [flow_id |-> ""] /\ xbefore = [flow_id |-> ""] /\ xauto = [flow_id |-> ""] /\ xturns = 0
IdleConfirm == ksess = [flow_id |-> ""] /\ kbefore = [flow_id |-> ""] /\ kturns = 0
IdleAA == aflow = <<>> /\ amax = 0 /\ alocal = [stage |-> ""] /\ apc = "" /\ aout = ""

IsNone(x) == x.k = "none"
IsStr(x) == x.k = "str"
IsInt(x) == x.k = "int"
IsList(x) == x.k = "list"
IsDict(x) == x.k = "dict"

\* key in d  (d a dict)
Has(d, key) == key \in DOMAIN d.v
\* d.get(key)
DGet(d, key) == IF Has(d, key) THEN d.v[key] ELSE NoneV
\* d[key] = val
Put(d, key, val) ==
    Dict([x \in (DOMAIN d.v) \cup {key} |-> IF x = key THEN val ELSE d.v[x]])
\* l[i] = val  (0-based i, in range)
ListSet(l, i, val) == List([j \in 1..Len(l.v) |-> IF j = i + 1 THEN val ELSE l.v[j]])
\* a dict of one key, of two keys
D1(k1, v1) == Put(EmptyDict, k1, v1)
D2(k1, v1, k2, v2) == Put(D1(k1, v1), k2, v2)

\* A Python dict may receive an integer key (d[0] = v); no path segment can
\* name such a key, so it is kept apart from every string key of a path.
IntKey(n) == "#" \o ToString(n)

(***************************************************************************)
(* Paths.  "a.b[0].c[current]" is the sequence of its dot-separated parts; *)
(* a part is [key, ix, n] with ix = "none" (no bracket), "lit" (literal    *)
(* index n) or "cur" (the token current).                                  *)
(***************************************************************************)
Seg(key, ix, n) == [key |-> key, ix |-> ix, n |-> n]
SegKey(key) == Seg(key, "none", 0)
SegIdx(key, n) == Seg(key, "lit", n)
SegCur(key) == Seg(key, "cur", 0)

\* key.rstrip('s') for the keys of the model
RECURSIVE RStripS(_)
RStripS(key) ==
    IF key # "" /\ SubSeq(key, Len(key), Len(key)) = "s"
    THEN RStripS(SubSeq(key, 1, Len(key) - 1)) ELSE key
\* f"current_{key.rstrip('s')}_index"
CurKey1(key) == "current_" \o RStripS(key) \o "_index"
\* f"{key}_current_index"
CurKey2(key) == key \o "_current_index"

(***************************************************************************)
(* TemplateRenderer._get_nested_value                                      *)
(***************************************************************************)
\* the index a bracketed part designates in the container cur (NoneV: none)
ReadIndexSecondKey(cur, s) ==
    IF s.ix = "cur"
    THEN IF IsDict(cur) /\ Has(cur, CurKey2(s.key)) THEN DGet(cur, CurKey2(s.key)) ELSE NoneV
    ELSE Num(s.n)
ReadIndex(cur, s) ==
    IF s.ix = "cur"
    THEN IF IsDict(cur)
         THEN IF Has(cur, CurKey1(s.key)) THEN DGet(cur, CurKey1(s.key))
              ELSE IF Has(cur, CurKey2(s.key)) THEN DGet(cur, CurKey2(s.key))
              ELSE NoneV
         ELSE NoneV
    ELSE Num(s.n)

RECURSIVE GetNested(_, _)
GetNested(cur, segs) ==
    IF segs = <<>> THEN cur
    ELSE IF IsNone(cur) THEN NoneV
    ELSE LET s == Head(segs)
             rest == Tail(segs)
         IN IF s.ix # "none"
            THEN LET idx == ReadIndex(cur, s)
                     c2 == IF IsDict(cur) THEN DGet(cur, s.key) ELSE cur
                 IN IF IsNone(idx) THEN NoneV
                    ELSE IF IsList(c2) /\ IsInt(idx) /\ 0 <= idx.v /\ idx.v < Len(c2.v)
                         THEN GetNested(c2.v[idx.v + 1], rest)
                         ELSE NoneV
            ELSE IF IsDict(cur) THEN GetNested(DGet(cur, s.key), rest)
                 ELSE NoneV

(***************************************************************************)
(* SlotWriter.write.  Python mutates the structure in place, so a write    *)
(* that stops early leaves what it had created.  The result is [st, d]:    *)
(* st = "ok" (written), "skip" (returned without writing), "raise" (an     *)
(* exception left the function); d = the structure as the call left it.    *)
(***************************************************************************)
WRes(st, d) == [st |-> st, d |-> d]

\* resolve_index.  "x in context" is key membership on a dict, element
\* membership on a list, a substring test on a string (no string of the
\* model contains an index key) and a TypeError on None and on a number.
ResolveIndex(s, ctx) ==
    IF s.ix = "lit" THEN [st |-> "ok", idx |-> Num(s.n)]
    ELSE IF IsDict(ctx)
         THEN IF Has(ctx, CurKey1(s.key)) THEN [st |-> "ok", idx |-> ctx.v[CurKey1(s.key)]]
              ELSE IF Has(ctx, CurKey2(s.key)) THEN [st |-> "ok", idx |-> ctx.v[CurKey2(s.key)]]
              ELSE [st |-> "skip", idx |-> NoneV]
         ELSE IF IsList(ctx)
              THEN IF \E j \in 1..Len(ctx.v) : ctx.v[j] \in {Str(CurKey1(s.key)), Str(CurKey2(s.key))}
                   THEN [st |-> "raise", idx |-> NoneV]
                   ELSE [st |-> "skip", idx |-> NoneV]
              ELSE IF IsStr(ctx) THEN [st |-> "skip", idx |-> NoneV]
              ELSE [st |-> "raise", idx |-> NoneV]

\* while len(l) <= n: l.append(filler)
RECURSIVE Pad(_, _, _)
Pad(l, n, filler) ==
    IF Len(l.v) <= n THEN Pad(List(Append(l.v, filler)), n, filler) ELSE l

\* the container created for a missing intermediate key, given the next part
NewContainerAlwaysList(nxt) == EmptyList
NewContainer(nxt) == IF nxt.ix # "none" THEN EmptyList ELSE EmptyDict

\* the final, unindexed key: append to a list, otherwise set
LeafSetOverwrite(cur, key, value) == Put(cur, key, value)
LeafSet(cur, key, value) ==
    IF Has(cur, key) /\ IsList(cur.v[key]) /\ ~IsList(value)
    THEN Put(cur, key, List(Append(cur.v[key].v, value)))
    ELSE Put(cur, key, value)

RECURSIVE WriteAt(_, _, _)
WriteAt(cur, segs, value) ==
    LET s == Head(segs)
        rest == Tail(segs)
        last == (rest = <<>>)
    IN IF s.ix # "none"
       THEN LET r == ResolveIndex(s, cur)
            IN IF r.st # "ok" THEN WRes(r.st, cur)
               ELSE IF ~IsDict(cur) THEN WRes("raise", cur)
               ELSE LET c1 == IF Has(cur, s.key) THEN cur ELSE Put(cur, s.key, EmptyList)
                        t == c1.v[s.key]
                        idx == r.idx
                    IN IF ~IsInt(idx) \/ ~(IsList(t) \/ IsDict(t) \/ IsStr(t))
                       THEN WRes("raise", c1)
                       ELSE IF IsList(t)
                       THEN LET padded == Pad(t, idx.v, IF last THEN NoneV ELSE EmptyDict)
                                pos == IF idx.v >= 0 THEN idx.v ELSE Len(padded.v) + idx.v
                            IN IF pos < 0 THEN WRes("raise", c1)
                               ELSE IF last
                               THEN WRes("ok", Put(c1, s.key, ListSet(padded, pos, value)))
                               ELSE LET sub == WriteAt(padded.v[pos + 1], rest, value)
                                    IN WRes(sub.st, Put(c1, s.key, ListSet(padded, pos, sub.d)))
                       ELSE IF IsDict(t)
                       THEN IF Cardinality(DOMAIN t.v) <= idx.v THEN WRes("raise", c1)
                            ELSE IF last
                            THEN WRes("ok", Put(c1, s.key, Put(t, IntKey(idx.v), value)))
                            ELSE IF Has(t, IntKey(idx.v))
                            THEN LET sub == WriteAt(t.v[IntKey(idx.v)], rest, value)
                                 IN WRes(sub.st, Put(c1, s.key, Put(t, IntKey(idx.v), sub.d)))
                            ELSE WRes("raise", c1)
                       ELSE IF Len(t.v) <= idx.v \/ last \/ (idx.v < 0 /\ Len(t.v) < -idx.v)
                            THEN WRes("raise", c1)
                            ELSE WRes(WriteAt(Str("?"), rest, value).st, c1)
       ELSE IF ~IsDict(cur) THEN WRes("raise", cur)
            ELSE IF last THEN WRes("ok", LeafSet(cur, s.key, value))
            ELSE LET c1 == IF Has(cur, s.key) THEN cur
                           ELSE Put(cur, s.key, NewContainer(Head(rest)))
                     sub == WriteAt(c1.v[s.key], rest, value)
                 IN WRes(sub.st, Put(c1, s.key, sub.d))

SlotWrite(slots, save_to, value) ==
    IF save_to = <<>> THEN WRes("skip", slots) ELSE WriteAt(slots, save_to, value)

(***************************************************************************)
(* Text.  A text is a TLA+ string; the operators below do what str.lower,  *)
(* str.strip, re.sub(r"[^a-z0-9]+", " ", ...) and str.split do.            *)
(***************************************************************************)
UpperChars == "ABCDEFGHIJKLMNOPQRSTUVWXYZ"
LowerChars == "abcdefghijklmnopqrstuvwxyz"
DigitChars == "0123456789"
CharAt(t, i) == SubSeq(t, i, i)
CharsOf(t) == { CharAt(t, i) : i \in 1..Len(t) }
AlnumSet == CharsOf(LowerChars) \cup CharsOf(DigitChars)
SpaceSet == { " ", "\n", "\t" }

LowerChar(c) ==
    IF \E i \in 1..Len(UpperChars) : CharAt(UpperChars, i) = c
    THEN CharAt(LowerChars, CHOOSE i \in 1..Len(UpperChars) : CharAt(UpperChars, i) = c)
    ELSE c

RECURSIVE LowerFrom(_, _)
LowerFrom(t, i) == IF i > Len(t) THEN "" ELSE LowerChar(CharAt(t, i)) \o LowerFrom(t, i + 1)
\* t.lower()
Lower(t) == LowerFrom(t, 1)

RECURSIVE Strip(_)
\* t.strip()
Strip(t) ==
    IF t = "" THEN t
    ELSE IF CharAt(t, 1) \in SpaceSet THEN Strip(SubSeq(t, 2, Len(t)))
    ELSE IF CharAt(t, Len(t)) \in SpaceSet THEN Strip(SubSeq(t, 1, Len(t) - 1))
    ELSE t

\* sub in t
Contains(t, sub) ==
    \E i \in 1..(Len(t) - Len(sub) + 1) : SubSeq(t, i, i + Len(sub) - 1) = sub

\* re.sub(r"[^a-z0-9]+", " ", t.strip().lower()).strip().split():
\* the maximal runs of lower-case letters and digits
RECURSIVE TokensFrom(_, _, _, _)
TokensFrom(t, i, word, acc) ==
    IF i > Len(t) THEN IF word = "" THEN acc ELSE Append(acc, word)
    ELSE LET c == LowerChar(CharAt(t, i))
         IN IF c \in AlnumSet THEN TokensFrom(t, i + 1, word \o c, acc)
            ELSE TokensFrom(t, i + 1, "", IF word = "" THEN acc ELSE Append(acc, word))
Tokens(t) == TokensFrom(t, 1, "", <<>>)

(***************************************************************************)
(* StageAdvancer._parse_yes_no: "yes", "no" or "unclear" (True/False/None) *)
(***************************************************************************)
YesTokens ==
    { "yes", "y", "yeah", "yep", "yup", "sure", "ok", "okay", "k", "great", "good",
      "fine", "alright", "right", "correct", "true", "accurate", "affirmative",
      "confirmed", "generally", "mostly" }
NoTokens == { "no", "n", "nope", "nah", "negative", "incorrect", "false" }

ParseYesNo(user_response) ==
    LET tokens == Tokens(user_response)
        token_set == { tokens[i] : i \in 1..Len(tokens) }
        yes_hits == token_set \cap YesTokens # {}
        no_hits == token_set \cap NoTokens # {}
    IN IF tokens = <<>> THEN "unclear"
       ELSE IF tokens[1] \in YesTokens THEN "yes"
       ELSE IF tokens[1] \in NoTokens THEN "no"
       ELSE IF Len(tokens) >= 2 /\ tokens[1] = "i" /\ tokens[2] \in {"guess", "think"} THEN "yes"
       ELSE IF tokens[1] = "sounds" /\ "good" \in token_set THEN "yes"
       ELSE IF tokens[1] = "looks" /\ "good" \in token_set THEN "yes"
       ELSE IF "not" \in token_set /\ token_set \cap {"accurate", "correct", "true"} # {} THEN "no"
       ELSE IF yes_hits /\ ~no_hits THEN "yes"
       ELSE IF no_hits /\ ~yes_hits THEN "no"
       ELSE "unclear"

(***************************************************************************)
(* Stages.  A stage is the record of the fields its JSON object has;       *)
(* stage.get(field, default) is SGet.                                      *)
(***************************************************************************)
SGet(stage, field, default) == IF field \in DOMAIN stage THEN stage[field] ELSE default

\* the stage id a failed lookup of a mandatory 'next' gives (FlowRunnerError)
RaiseId == "!raise"

(***************************************************************************)
(* StageAdvancer._check_gate_criteria                                      *)
(***************************************************************************)
CriterionPassesListOnly(criterion, slots) ==
    LET value == GetNested(slots, criterion.slot)
        required == SGet(criterion, "required", TRUE)
    IN /\ ~(required /\ IsNone(value))
       /\ "min_items" \in DOMAIN criterion
            => ~(IsList(value) /\ Len(value.v) < criterion.min_items)
       /\ "max_items" \in DOMAIN criterion
            => ~(IsList(value) /\ Len(value.v) > criterion.max_items)
CriterionPasses(criterion, slots) ==
    LET value == GetNested(slots, criterion.slot)
        required == SGet(criterion, "required", TRUE)
    IN /\ ~(required /\ IsNone(value))
       /\ "min_items" \in DOMAIN criterion
            => (IsList(value) /\ Len(value.v) >= criterion.min_items)
       /\ "max_items" \in DOMAIN criterion
            => ~(IsList(value) /\ Len(value.v) > criterion.max_items)

CheckGateCriteria(criteria, slots) ==
    \A i \in 1..Len(criteria) : CriterionPasses(criteria[i], slots)

(***************************************************************************)
(* StageAdvancer.get_next_stage                                            *)
(***************************************************************************)
\* the confirm branch: an unclear response keeps the confirm stage
ConfirmNextDefaultNo(stage, user_response) ==
    IF ParseYesNo(user_response) = "yes" THEN SGet(stage, "on_yes", "end")
    ELSE SGet(stage, "on_no", "end")
ConfirmNext(stage, user_response) ==
    LET parsed == ParseYesNo(user_response)
    IN IF parsed = "yes" THEN SGet(stage, "on_yes", "end")
       ELSE IF parsed = "no" THEN SGet(stage, "on_no", "end")
       ELSE SGet(stage, "id", "end")

GetNextStage(stage, slots, user_response) ==
    LET stage_type == SGet(stage, "type", "")
    IN IF stage_type \in {"message", "questions", "action", "output"}
       THEN SGet(stage, "next", RaiseId)
       ELSE IF stage_type = "confirm" THEN ConfirmNext(stage, user_response)
       ELSE IF stage_type = "gate"
       THEN IF CheckGateCriteria(SGet(stage, "criteria", <<>>), slots)
            THEN SGet(stage, "on_pass", "end")
            ELSE SGet(stage, "on_fail", "end")
       ELSE IF stage_type = "branch"
       THEN LET branches == SGet(stage, "branches", <<>>)
            IN IF branches # <<>> THEN SGet(branches[1], "next", "end") ELSE "end"
       ELSE IF stage_type = "loop" THEN SGet(stage, "next", "end")
       ELSE "end"

(***************************************************************************)
(* FlowLoader.get_stage over the stage list of one flow                    *)
(***************************************************************************)
NoStage == [id |-> RaiseId]
GetStageIn(stages, stage_id) ==
    IF \E i \in 1..Len(stages) : SGet(stages[i], "id", "") = stage_id
    THEN stages[CHOOSE i \in 1..Len(stages) :
                    /\ SGet(stages[i], "id", "") = stage_id
                    /\ \A j \in 1..(i - 1) : SGet(stages[j], "id", "") # stage_id]
    ELSE NoStage

(***************************************************************************)
(* Actions of workflow_actions.py.  The result is [raised, slots, code]:   *)
(* raised = "" or the message of the exception, code = the result code.    *)
(***************************************************************************)
Bool(b) == [k |-> "bool", v |-> b]
\* Python truth value
Truthy(x) ==
    IF x.k = "bool" THEN x.v
    ELSE IF IsNone(x) THEN FALSE
    ELSE IF IsStr(x) THEN x.v # ""
    ELSE IF IsInt(x) THEN x.v # 0
    ELSE IF IsList(x) THEN x.v # <<>>
    ELSE DOMAIN x.v # {}

ARes(raised, slots, code) == [raised |-> raised, slots |-> slots, code |-> code]
\* the code of an action that returns slots alone, not a (slots, code) tuple
SlotsOnly == ""

\* slots.get("process_parameters", {})
ProcessParameters(slots) ==
    IF Has(slots, "process_parameters") THEN slots.v["process_parameters"] ELSE EmptyDict
\* .get("data_elements", [])
DataElements(pp) == IF Has(pp, "data_elements") THEN pp.v["data_elements"] ELSE EmptyList

NeedsValidation(elem) ==
    \/ ~Truthy(IF Has(elem, "validated") THEN elem.v["validated"] ELSE Bool(FALSE))
    \/ IsNone(DGet(elem, "definition"))

SelectNextDataElementForValidation(slots) ==
    LET pp == ProcessParameters(slots)
        elements == DataElements(pp)
        open == { i \in 1..Len(elements.v) : NeedsValidation(elements.v[i]) }
        first == CHOOSE i \in open : \A j \in open : i <= j
    IN IF open # {}
       THEN ARes("", Put(slots, "process_parameters",
                         Put(pp, "current_data_element_index", Num(first - 1))),
                 "element_selected")
       ELSE ARes("", Put(slots, "process_parameters",
                         Put(pp, "current_data_element_index", NoneV)),
                 "all_validated")

CommitValidatedDataElement(slots) ==
    LET pp == ProcessParameters(slots)
        idx == DGet(pp, "current_data_element_index")
        elements == DataElements(pp)
    IN IF ~IsNone(idx) /\ 0 <= idx.v /\ idx.v < Len(elements.v)
       THEN ARes("", Put(slots, "process_parameters",
                         Put(pp, "data_elements",
                             ListSet(elements, idx.v,
                                     Put(elements.v[idx.v + 1], "validated", Bool(TRUE))))),
                 SlotsOnly)
       ELSE ARes("", slots, SlotsOnly)

EmptyStepBuffer(description) ==
    Dict([f \in {"description", "owner_role", "inputs", "outputs", "systems_tools_used",
                 "decision", "decision_outcomes", "wait_or_delay", "common_exception"} |->
            IF f = "description" THEN description
            ELSE IF f = "decision_outcomes" THEN EmptyList ELSE Str("")])

CopyNextStepToBuffer(slots) ==
    LET wcs == IF Has(slots, "workflow_capture_state")
               THEN slots.v["workflow_capture_state"] ELSE EmptyDict
        next_step_response == IF Has(wcs, "next_step_response")
                              THEN wcs.v["next_step_response"] ELSE Str("")
    IN ARes("", Put(slots, "workflow_capture_state",
                    Put(wcs, "active_step_buffer", EmptyStepBuffer(next_step_response))),
            SlotsOnly)

\* execute_action's return: a tuple as it is, slots alone with "success"
NormalizedNoDefault(result) == result
Normalized(result) ==
    IF result.raised = "" /\ result.code = SlotsOnly
    THEN ARes("", result.slots, "success") ELSE result

ExecuteAction(action_name, slots, user_response) ==
    IF action_name = "select_next_data_element_for_validation"
    THEN Normalized(SelectNextDataElementForValidation(slots))
    ELSE IF action_name = "commit_validated_data_element"
    THEN Normalized(CommitValidatedDataElement(slots))
    ELSE IF action_name = "copy_next_step_to_buffer"
    THEN Normalized(CopyNextStepToBuffer(slots))
    ELSE ARes("Unknown action: " \o action_name, slots, "")

(***************************************************************************)
(* auto_advance_node.  The locals of its while loop are the record         *)
(* [stage, slots, steps, halted, raised, reset, seen, aliased]: halted =   *)
(* the loop hit a break, raised = the message of an exception ("" for      *)
(* none), reset = a question_cursors_reset event was recorded.  slots      *)
(* starts as a shallow copy of state["slots"]: seen is state["slots"] as   *)
(* the in-place updates of the actions leave it, aliased = the objects     *)
(* under the top-level keys are still shared with it.                      *)
(***************************************************************************)
StagesToResetCaptureOnly ==
    { "workflow_step_capture__step_description",
      "workflow_step_capture__owner",
      "workflow_step_capture__inputs",
      "workflow_step_capture__outputs",
      "workflow_step_capture__systems",
      "workflow_step_capture__decision_wait_exception",
      "workflow_step_capture__wait_exception",
      "workflow_step_capture__decision_outcomes" }
StagesToReset ==
    { "workflow_ask_next_step",
      "workflow_step_capture__step_description",
      "workflow_step_capture__owner",
      "workflow_step_capture__inputs",
      "workflow_step_capture__outputs",
      "workflow_step_capture__systems",
      "workflow_step_capture__decision_wait_exception",
      "workflow_step_capture__wait_exception",
      "workflow_step_capture__decision_outcomes" }

AAStart(active_stage_id, slots) ==
    [stage |-> active_stage_id, slots |-> slots, steps |-> 0,
     halted |-> FALSE, raised |-> "", reset |-> FALSE, seen |-> slots, aliased |-> TRUE]

\* the branch stage: the first branch whose expected value equals the last
\* action result, else the first branch, else "end"
BranchNextFirstBranch(stage, slots) ==
    IF SGet(stage, "branches", <<>>) # <<>> THEN SGet(stage.branches[1], "next", "end") ELSE "end"
BranchNext(stage, slots) ==
    LET last_action_result == DGet(slots, "_last_action_result")
        branches == SGet(stage, "branches", <<>>)
        Expected(b) ==
            LET w == SGet(b, "when", [none |-> TRUE]).action_result_equals
            IN IF "value" \in DOMAIN w THEN Str(w.value) ELSE NoneV
        Hit(i) == /\ "action_result_equals" \in DOMAIN SGet(branches[i], "when", [none |-> TRUE])
                  /\ Expected(branches[i]) = last_action_result
        hits == { i \in 1..Len(branches) : Hit(i) }
    IN IF hits # {}
       THEN SGet(branches[CHOOSE i \in hits : \A j \in hits : i <= j], "next", "end")
       ELSE IF branches # <<>> THEN SGet(branches[1], "next", "end")
       ELSE "end"

\* the loop stage: leave by on_stop when the signal slot names data_elements
\* and no current data element is selected
LoopNextNeverStops(stage, slots) == SGet(stage, "next", "end")
LoopNext(stage, slots) ==
    LET stop_condition == SGet(stage, "stop_condition", [none |-> TRUE])
        signal_slot == SGet(stop_condition, "signal_slot", "")
        should_exit_loop ==
            /\ signal_slot # ""
            /\ Contains(signal_slot, "data_elements")
            /\ IsNone(DGet(ProcessParameters(slots), "current_data_element_index"))
    IN IF should_exit_loop THEN SGet(stage, "on_stop", "end") ELSE SGet(stage, "next", "end")

\* copy_next_step_to_buffer works on a deep copy; the other actions on a
\* shallow one, updating the objects under process_parameters in place
DeepCopies(action_name) == action_name = "copy_next_step_to_buffer"
SeenAfter(st, action_name, updated_slots) ==
    IF st.aliased /\ ~DeepCopies(action_name) /\ Has(st.seen, "process_parameters")
    THEN Put(st.seen, "process_parameters", updated_slots.v["process_parameters"])
    ELSE st.seen

\* steps += 1
StepsAfterStuck(steps) == steps
StepsAfter(steps) == steps + 1

\* one pass through the body of the while loop
AABody(stages, user_response, st) ==
    LET stage == GetStageIn(stages, st.stage)
        stage_type == SGet(stage, "type", "")
        Go(next_stage) == [st EXCEPT !.stage = next_stage, !.steps = StepsAfter(st.steps)]
    IN IF stage = NoStage
       THEN [st EXCEPT !.raised = "Stage '" \o st.stage \o "' not found"]
       ELSE IF stage_type \in {"questions", "confirm"} THEN [st EXCEPT !.halted = TRUE]
       ELSE IF st.stage = "end" THEN [st EXCEPT !.halted = TRUE]
       ELSE IF stage_type = "message" THEN Go(SGet(stage, "next", "end"))
       ELSE IF stage_type = "action"
       THEN LET action_name == SGet(stage, "action", "")
                r == ExecuteAction(action_name, st.slots, user_response)
            IN IF action_name = "" THEN Go(SGet(stage, "next", "end"))
               ELSE IF r.raised # "" THEN [st EXCEPT !.raised = r.raised]
               ELSE [st EXCEPT !.slots = Put(r.slots, "_last_action_result", Str(r.code)),
                               !.seen = SeenAfter(st, action_name, r.slots),
                               !.aliased = st.aliased /\ ~DeepCopies(action_name),
                               !.reset = st.reset \/ action_name = "copy_next_step_to_buffer",
                               !.stage = SGet(stage, "next", "end"),
                               !.steps = StepsAfter(st.steps)]
       ELSE IF stage_type = "gate" THEN Go(GetNextStage(stage, st.slots, ""))
       ELSE IF stage_type = "branch" THEN Go(BranchNext(stage, st.slots))
       ELSE IF stage_type = "loop" THEN Go(LoopNext(stage, st.slots))
       ELSE IF stage_type = "output" THEN Go(SGet(stage, "next", "end"))
       ELSE [st EXCEPT !.halted = TRUE]

\* the condition under which the body runs once more
AAContinues(st, max_steps) == st.steps < max_steps /\ ~st.halted /\ st.raised = ""

RECURSIVE AALoop(_, _, _, _)
AALoop(stages, user_response, st, max_steps) ==
    IF AAContinues(st, max_steps)
    THEN AALoop(stages, user_response, AABody(stages, user_response, st), max_steps)
    ELSE st

\* what the node returns once the loop is left: "failed" (the except
\* branch), "budget" (the cycle limit) or "ok" (the result dict)
AAOutcome(st, max_steps) ==
    IF st.raised # "" THEN "failed"
    ELSE IF st.steps >= max_steps THEN "budget"
    ELSE "ok"

BudgetErrorNoLimit(max_steps) == "Auto-advance exceeded max steps"
BudgetError(max_steps) == "Auto-advance exceeded max steps (" \o ToString(max_steps) \o ")"

(***************************************************************************)
(* TemplateRenderer.render.  A template is the sequence of its parts: a    *)
(* literal text [lit] or a placeholder {{path}} as [path, text], path the  *)
(* parsed path and text the path as written.                               *)
(***************************************************************************)
Lit(text) == [lit |-> text]
Ref(text, path) == [path |-> path, text |-> text]

RECURSIVE JsonDumps(_)
RECURSIVE JsonItems(_, _)
RECURSIVE JsonFields(_, _)
\* json.dumps of the elements from the i-th on, separated by ", "
JsonItems(q, i) ==
    IF i > Len(q) THEN ""
    ELSE JsonDumps(q[i]) \o (IF i < Len(q) THEN ", " ELSE "") \o JsonItems(q, i + 1)
\* the fields of a dict; Python writes them in insertion order, which a Dict
\* of this model does not keep: the order here is a fixed, arbitrary one
JsonFields(f, keys) ==
    IF keys = {} THEN ""
    ELSE LET key == CHOOSE x \in keys : TRUE
         IN "\"" \o key \o "\": " \o JsonDumps(f[key])
            \o (IF keys # {key} THEN ", " ELSE "") \o JsonFields(f, keys \ {key})
JsonDumps(x) ==
    IF IsNone(x) THEN "null"
    ELSE IF x.k = "bool" THEN (IF x.v THEN "true" ELSE "false")
    ELSE IF IsInt(x) THEN ToString(x.v)
    ELSE IF IsStr(x) THEN "\"" \o x.v \o "\""
    ELSE IF IsList(x) THEN "[" \o JsonItems(x.v, 1) \o "]"
    ELSE "{" \o JsonFields(x.v, DOMAIN x.v) \o "}"

\* the replacement of one placeholder
RenderValue(part, slots) ==
    LET value == GetNested(slots, part.path)
    IN IF IsNone(value) THEN "[" \o part.text \o "]"
       ELSE IF IsList(value) \/ IsDict(value) THEN JsonDumps(value)
       ELSE IF IsStr(value) THEN value.v
       ELSE IF IsInt(value) THEN ToString(value.v)
       ELSE IF value.v THEN "True" ELSE "False"

RECURSIVE RenderFrom(_, _, _)
RenderFrom(template, i, slots) ==
    IF i > Len(template) THEN ""
    ELSE (IF "lit" \in DOMAIN template[i] THEN template[i].lit
          ELSE RenderValue(template[i], slots))
         \o RenderFrom(template, i + 1, slots)
Render(template, slots) == RenderFrom(template, 1, slots)

(***************************************************************************)
(* _should_clarify                                                         *)
(***************************************************************************)
VagueWords == { "maybe", "sort of", "kind of", "i think", "not sure", "dunno", "idk", "probably" }
ClearResponses ==
    { "no", "yes", "y", "n", "nope", "yep", "yeah", "nah", "no.", "yes.", "no decision",
      "none", "n/a", "na", "not applicable", "there is no", "there's no" }

ShouldClarify(user_text, condition) ==
    LET text == Strip(user_text)
        lower_text == Lower(text)
    IN IF user_text = "" THEN TRUE
       ELSE IF condition = "empty_or_too_short" THEN Len(text) < 5
       ELSE IF condition = "vague"
       THEN IF lower_text \in ClearResponses
               \/ \E resp \in ClearResponses : Contains(lower_text, resp)
            THEN FALSE
            ELSE \E word \in VagueWords : Contains(lower_text, word)
       ELSE IF condition = "unclear_yes_no" THEN ParseYesNo(text) = "unclear"
       ELSE FALSE

(***************************************************************************)
(* Session state (InterviewState) and the flow registry.  A message is     *)
(* [role, content] with role "human" or "ai"; pending is PNone (None) or   *)
(* the record of a pending question or confirm; question_cursor is a       *)
(* function from stage ids to question indices; error is "" for None.      *)
(***************************************************************************)
PNone == [none |-> TRUE]
EmptyCursor == [x \in {} |-> 0]
HumanMessage(content) == [role |-> "human", content |-> content]
AIMessage(content) == [role |-> "ai", content |-> content]

\* question_cursor.get(stage_id, 0)
CursorGet(question_cursor, stage_id) ==
    IF stage_id \in DOMAIN question_cursor THEN question_cursor[stage_id] ELSE 0
\* question_cursor[stage_id] = idx
CursorPut(question_cursor, stage_id, idx) ==
    [x \in DOMAIN question_cursor \cup {stage_id} |->
        IF x = stage_id THEN idx ELSE question_cursor[x]]

\* the node's except branch: {"error": ..., "retry_count": retry_count + 1}
FailedSilently(state, message) == state
Failed(state, message) ==
    [state EXCEPT !.error = message, !.retry_count = @ + 1]

\* what state["slots"] holds after SlotWriter.write ran on its shallow copy
\* and the copy was dropped: the objects under the top-level keys are shared,
\* so only a new top-level key or a rebound one is lost
SharedAfterWrite(old, new, save_to) ==
    Dict([key \in DOMAIN old.v |->
            IF /\ Len(save_to) = 1 /\ save_to[1].ix = "none" /\ save_to[1].key = key
               /\ ~IsList(old.v[key])
            THEN old.v[key] ELSE new.v[key]])

(***************************************************************************)
(* load_flow_node                                                          *)
(***************************************************************************)
LoadFlowNode(flows, state) ==
    IF state.slots = EmptyDict
    THEN IF state.flow_id \in DOMAIN flows
         THEN [state EXCEPT !.slots = flows[state.flow_id].slots]
         ELSE Failed(state, "Failed to load flow: Unknown flow_id: " \o state.flow_id)
    ELSE state

(***************************************************************************)
(* ingest_user_answer_node                                                 *)
(***************************************************************************)
\* the first clarify_if rule of the pending question whose condition holds
\* of the answer, or 0
FirstClarifyRuleLastHit(clarify_if, user_text) ==
    LET hits == { i \in 1..Len(clarify_if) :
                    ShouldClarify(user_text, SGet(clarify_if[i], "condition", "")) }
    IN IF hits = {} THEN 0 ELSE CHOOSE i \in hits : \A j \in hits : i >= j
FirstClarifyRule(clarify_if, user_text) ==
    LET hits == { i \in 1..Len(clarify_if) :
                    ShouldClarify(user_text, SGet(clarify_if[i], "condition", "")) }
    IN IF hits = {} THEN 0 ELSE CHOOSE i \in hits : \A j \in hits : i <= j

\* after the write: advance the question index or leave the stage
IngestAdvanceKeepsCursor(state, stage, slots) ==
    [state EXCEPT !.slots = slots, !.pending = PNone]
IngestAdvance(state, stage, slots) ==
    LET active_stage_id == state.active_stage_id
        idx == IF "question_index" \in DOMAIN state.pending
               THEN state.pending.question_index
               ELSE CursorGet(state.question_cursor, active_stage_id)
        next_idx == idx + 1
        questions == SGet(stage, "questions", <<>>)
    IN IF next_idx < Len(questions)
       THEN [state EXCEPT !.slots = slots, !.pending = PNone,
                          !.question_cursor = CursorPut(@, active_stage_id, next_idx)]
       ELSE [state EXCEPT !.slots = slots, !.pending = PNone,
                          !.active_stage_id = SGet(stage, "next", "end"),
                          !.question_cursor = CursorPut(@, active_stage_id, next_idx)]

IngestUserAnswerNode(flows, state) ==
    LET messages == state.messages
        last_msg == messages[Len(messages)]
        user_text == last_msg.content
        pending == state.pending
        stage == GetStageIn(flows[state.flow_id].stages, state.active_stage_id)
        stage_type == SGet(stage, "type", "")
        is_clarifying == SGet(pending, "is_clarifying", FALSE)
        original_answer == SGet(pending, "original_answer", "")
        combined_answer == IF original_answer # ""
                           THEN original_answer \o "\n" \o user_text ELSE user_text
        rule == FirstClarifyRule(SGet(pending, "clarify_if", <<>>), user_text)
        follow_up == SGet(pending.clarify_if[rule], "follow_up", "Can you provide more detail?")
        written == SlotWrite(state.slots, pending.save_to,
                             Str(IF is_clarifying THEN combined_answer ELSE user_text))
    IN IF messages = <<>> THEN state
       ELSE IF last_msg.role # "human" THEN state
       ELSE IF pending = PNone THEN state
       ELSE IF state.flow_id \notin DOMAIN flows
       THEN Failed(state, "Failed to ingest answer: Unknown flow_id: " \o state.flow_id)
       ELSE IF stage = NoStage
       THEN Failed(state, "Failed to ingest answer: Stage '" \o state.active_stage_id
                          \o "' not found in flow '" \o state.flow_id \o "'")
       ELSE IF "save_to" \in DOMAIN pending
       THEN IF ~is_clarifying /\ rule # 0 /\ follow_up # ""
            THEN [state EXCEPT
                    !.messages = Append(@, AIMessage(follow_up)),
                    !.pending = [f \in DOMAIN pending \cup {"is_clarifying", "original_answer"} |->
                                    IF f = "is_clarifying" THEN TRUE
                                    ELSE IF f = "original_answer" THEN user_text
                                    ELSE pending[f]]]
            \* str(e) of a write that raised depends on the object it met; the
            \* model keeps the exception's class for it
            ELSE IF written.st = "raise"
            THEN Failed([state EXCEPT !.slots = SharedAfterWrite(@, written.d, pending.save_to)],
                        "Failed to ingest answer: " \o "TypeError")
            ELSE IF stage_type = "questions" THEN IngestAdvance(state, stage, written.d)
            ELSE [state EXCEPT !.slots = written.d, !.pending = PNone]
       ELSE IF stage_type = "confirm"
       THEN [state EXCEPT !.pending = PNone,
                          !.active_stage_id = GetNextStage(stage, state.slots, user_text)]
       ELSE [state EXCEPT !.pending = PNone]

(***************************************************************************)
(* auto_advance_node as one step of the turn                               *)
(***************************************************************************)
AutoAdvanceNode(flows, state) ==
    LET messages == state.messages
        user_response == IF messages # <<>> /\ messages[Len(messages)].role = "human"
                         THEN messages[Len(messages)].content ELSE ""
        max_steps == state.max_auto_advance_steps
        st == AALoop(flows[state.flow_id].stages, user_response,
                     AAStart(state.active_stage_id, state.slots), max_steps)
        outcome == AAOutcome(st, max_steps)
        \* str(e): get_stage names the flow in its message
        raised == IF GetStageIn(flows[state.flow_id].stages, st.stage) = NoStage
                  THEN st.raised \o " in flow '" \o state.flow_id \o "'"
                  ELSE st.raised
    IN IF state.flow_id \notin DOMAIN flows
       THEN Failed(state, "Auto-advance failed: Unknown flow_id: " \o state.flow_id)
       ELSE IF outcome = "failed"
       THEN Failed([state EXCEPT !.slots = st.seen], "Auto-advance failed: " \o raised)
       ELSE IF outcome = "budget"
       THEN Failed([state EXCEPT !.slots = st.seen], BudgetError(max_steps))
       ELSE [state EXCEPT
               !.active_stage_id = st.stage,
               !.slots = st.slots,
               !.auto_advance_count = @ + st.steps,
               !.question_cursor = IF st.reset
                                   THEN [x \in DOMAIN @ \ StagesToReset |-> @[x]]
                                   ELSE @]

(***************************************************************************)
(* _detect_loop                                                            *)
(***************************************************************************)
MinMessages == 6
RecentWindow == 20
RecentAI == 10
RepeatLimit == 3
ShortMessage == 20

\* the stripped contents of the last RecentAI bot messages among the last
\* RecentWindow messages, newest first
RECURSIVE RecentAIFrom(_, _, _, _)
RecentAIFrom(messages, i, low, acc) ==
    IF i < low \/ Len(acc) >= RecentAI THEN acc
    ELSE RecentAIFrom(messages, i - 1, low,
                      IF messages[i].role = "ai"
                      THEN Append(acc, Strip(messages[i].content)) ELSE acc)

RecentAIMessages(messages) ==
    RecentAIFrom(messages, Len(messages),
                 IF Len(messages) > RecentWindow THEN Len(messages) - RecentWindow + 1 ELSE 1,
                 <<>>)

Count(q, x) == Cardinality({ i \in 1..Len(q) : q[i] = x })

DetectLoop(messages) ==
    LET recent_ai_messages == RecentAIMessages(messages)
    IN /\ Len(messages) >= MinMessages
       /\ Len(recent_ai_messages) >= RepeatLimit
       /\ \E i \in 1..Len(recent_ai_messages) :
            /\ Len(recent_ai_messages[i]) > ShortMessage
            /\ Count(recent_ai_messages, recent_ai_messages[i]) >= RepeatLimit

(***************************************************************************)
(* render_prompt_node                                                      *)
(***************************************************************************)
\* "Thanks - moving on." with the dash of the source written in ASCII: 19
\* characters either way
MovingOn == "Thanks - moving on."
Unexpected == "Unexpected stage type. Please continue."

PendingQuestion(q, rendered, idx) ==
    [question_id |-> SGet(q, "id", ""),
     save_to |-> SGet(q, "save_to", <<>>),
     ask |-> rendered,
     clarify_if |-> SGet(q, "clarify_if", <<>>),
     question_index |-> idx]

PendingConfirm(stage) ==
    [confirm_id |-> SGet(stage, "id", ""),
     summary_template |-> SGet(stage, "summary_template", <<>>),
     ask |-> SGet(stage, "ask", "Is this correct?"),
     on_yes |-> SGet(stage, "on_yes", ""),
     on_no |-> SGet(stage, "on_no", "")]

\* one returned message and the pending interaction
Say(state, content, pending) ==
    [state EXCEPT !.messages = Append(@, AIMessage(content)), !.pending = pending]

\* the forced advance of the loop detector and of the questions-exhausted
\* safety net: the transition message, no pending, the stage's next
ForceAdvanceKeepsPending(state, stage) ==
    [Say(state, MovingOn, state.pending) EXCEPT !.active_stage_id = SGet(stage, "next", "end")]
ForceAdvance(state, stage) ==
    [Say(state, MovingOn, PNone) EXCEPT !.active_stage_id = SGet(stage, "next", "end")]

RenderPromptNode(flows, state) ==
    LET active_stage_id == state.active_stage_id
        slots == state.slots
        stage == GetStageIn(flows[state.flow_id].stages, active_stage_id)
        stage_type == SGet(stage, "type", "")
        questions == SGet(stage, "questions", <<>>)
        idx == CursorGet(state.question_cursor, active_stage_id)
        q == questions[idx + 1]
        rendered == Render(SGet(q, "ask", <<>>), slots)
        NotFound == Failed(state, "Failed to render prompt: Stage '" \o active_stage_id
                                  \o "' not found in flow '" \o state.flow_id \o "'")
    IN IF state.flow_id \notin DOMAIN flows
       THEN Failed(state, "Failed to render prompt: Unknown flow_id: " \o state.flow_id)
       ELSE IF stage = NoStage THEN NotFound
       ELSE IF DetectLoop(state.messages)
       THEN ForceAdvance(state, stage)
       ELSE IF active_stage_id = "end"
       THEN Say(state, Render(SGet(stage, "prompt", <<Lit("Interview complete. Thank you!")>>),
                              slots), PNone)
       ELSE IF stage_type = "questions" /\ questions # <<>>
       THEN IF idx >= Len(questions)
            THEN ForceAdvance(state, stage)
            ELSE Say(state, rendered, PendingQuestion(q, rendered, idx))
       ELSE IF stage_type = "confirm"
       THEN Say(state,
                Render(SGet(stage, "summary_template", <<>>), slots) \o "\n\n"
                    \o SGet(stage, "ask", "Is this correct?"),
                PendingConfirm(stage))
       ELSE Say(state, Unexpected, PNone)

(***************************************************************************)
(* should_continue                                                         *)
(***************************************************************************)
ShouldContinueIgnoresError(state) ==
    IF state.active_stage_id = "end" THEN "end" ELSE "continue"
ShouldContinue(state) ==
    IF state.error # "" THEN "end"
    ELSE IF state.active_stage_id = "end" THEN "end"
    ELSE "continue"

(***************************************************************************)
(* Specification SpecYN: one confirm stage routes one response through     *)
(* StageAdvancer.get_next_stage.                                           *)
(***************************************************************************)
MaxWords == 3

YNWords ==
    { "Yes.", "No,", "maybe", "NOT", "good", "I", "think", "sounds", "correct!",
      "that's", "--", "nope" }

RECURSIVE JoinWords(_)
\* " ".join(ws)
JoinWords(ws) ==
    IF ws = <<>> THEN ""
    ELSE IF Len(ws) = 1 THEN ws[1]
    ELSE ws[1] \o " " \o JoinWords(Tail(ws))

\* the responses of the unit tests and of the boundary scenarios
YNExamples ==
    { "", "Yes.", "yes", "maybe", "No, fix the third item", "Yes, that looks accurate",
      "I guess generally", "No, I need to correct something", "ok", "sure", "great",
      "I think no, that is not good", "well yes no" }

YNResponses ==
    { JoinWords(ws) : ws \in UNION { [1..n -> YNWords] : n \in 1..MaxWords } } \cup YNExamples

YNStages ==
    { [id |-> "sipoc_confirm", type |-> "confirm", on_yes |-> "end", on_no |-> "sipoc_capture"],
      [id |-> "review", type |-> "confirm", on_yes |-> "wrap", on_no |-> "retry"] }

InitYN ==
    /\ IdleWrite /\ IdleAA /\ IdleTurn /\ IdleGate /\ IdleNode /\ IdleClarify /\ IdleRound /\ IdleSessions /\ IdleRender /\ IdleConfirm /\ IdleLoop /\ IdleWorkflow
    /\ yresp \in YNResponses
    /\ ystage \in YNStages
    /\ ynext = ""
    /\ ydone = FALSE

\* StageAdvancer.get_next_stage(stage, slots, user_response=yresp)
ConfirmRoute ==
    /\ ~ydone
    /\ ynext' = GetNextStage(ystage, EmptyDict, yresp)
    /\ ydone' = TRUE
    /\ UNCHANGED <<yresp, ystage, wvars, avars, svars, gvars, nvars, cvars, rvars, qvars, tvars, kvars, lvars, xvars>>

NextYN == ConfirmRoute

(***************************************************************************)
(* Specification SpecGate: StageAdvancer.get_next_stage on a gate stage,   *)
(* for every list of at most MaxCriteria criteria over two slots, every    *)
(* combination of given and omitted criterion fields, and the values a     *)
(* slot can hold.                                                          *)
(***************************************************************************)
MaxCriteria == 2

GatePaths ==
    { <<SegKey("sipoc"), SegKey("suppliers")>>, <<SegKey("sipoc"), SegKey("customers")>> }

\* a criterion dict: "slot" and any subset of "required", "min_items", "max_items"
GateCriterion(slot, given, required, min_items, max_items) ==
    [f \in {"slot"} \cup given |->
        IF f = "slot" THEN slot
        ELSE IF f = "required" THEN required
        ELSE IF f = "min_items" THEN min_items
        ELSE max_items]

GateCriteria ==
    { GateCriterion(slot, given, required, 1, 1) :
        slot \in GatePaths,
        given \in SUBSET {"required", "min_items", "max_items"},
        required \in BOOLEAN }

\* what a slot holds: nothing, an empty list, lists of one and of two items, text
GateValues ==
    { NoneV, EmptyList, List(<<Str("Vendor A")>>),
      List(<<Str("Vendor A"), Str("Vendor B")>>), Str("Vendor A") }

\* slots with the key missing (NoneV stands for "no such key") or holding the value
GateSlotsOf(suppliers, customers) ==
    LET sipoc == IF IsNone(suppliers) THEN EmptyDict ELSE D1("suppliers", suppliers)
    IN D1("sipoc", Put(sipoc, "customers", customers))

GateSlots ==
    { GateSlotsOf(suppliers, customers) :
        suppliers \in GateValues, customers \in {NoneV, List(<<Str("Buyer")>>)} }

GateStage(criteria) ==
    [id |-> "sipoc_gate", type |-> "gate", criteria |-> criteria,
     on_pass |-> "sipoc_confirm", on_fail |-> "sipoc_capture"]

InitGate ==
    /\ IdleWrite /\ IdleYN /\ IdleAA /\ IdleTurn /\ IdleNode /\ IdleClarify /\ IdleRound /\ IdleSessions /\ IdleRender /\ IdleConfirm /\ IdleLoop /\ IdleWorkflow
    /\ gstage \in { GateStage(criteria) :
                      criteria \in UNION { [1..n -> GateCriteria] : n \in 0..MaxCriteria } }
    /\ gslots \in GateSlots
    /\ gnext = ""
    /\ gdone = FALSE

\* StageAdvancer.get_next_stage(stage, slots)
GateRoute ==
    /\ ~gdone
    /\ gnext' = GetNextStage(gstage, gslots, "")
    /\ gdone' = TRUE
    /\ UNCHANGED <<gstage, gslots, wvars, yvars, avars, svars, nvars, cvars, rvars, qvars, tvars, kvars, lvars, xvars>>

NextGate == GateRoute

SpecGate == InitGate /\ [][NextGate]_vars

(***************************************************************************)
(* Specification SpecAA: one call of auto_advance_node, one pass of its    *)
(* while loop per step, on every flow graph of a family of two stages and  *)
(* the end stage and on every step budget up to MaxBudget.                 *)
(***************************************************************************)
MaxBudget == 3

AATargets == {"s1", "s2", "end"}

AAElement(validated) ==
    Dict([f \in {"name", "definition", "validated"} |->
            IF f = "name" THEN Str("Order ID")
            ELSE IF f = "definition" THEN (IF validated THEN Str("x") ELSE NoneV)
            ELSE Bool(validated)])

\* a data element waits for validation and the gate's slot is filled; or
\* every element is validated, none is selected and the gate's slot is absent
AASlots ==
    { D2("process_parameters",
         D2("data_elements", List(<<AAElement(FALSE)>>),
            "current_data_element_index", Num(0)),
         "flag", Str("set")),
      D1("process_parameters",
         D2("data_elements", List(<<AAElement(TRUE)>>),
            "current_data_element_index", NoneV)) }

AAStagesOf(id) ==
    { [id |-> id, type |-> ty, next |-> a] : ty \in {"message", "output"}, a \in AATargets }
    \cup { [id |-> id, type |-> "action", action |-> act, next |-> a] :
             act \in {"select_next_data_element_for_validation",
                      "commit_validated_data_element"},
             a \in AATargets }
    \cup { [id |-> id, type |-> "gate",
            criteria |-> << [slot |-> <<SegKey("flag")>>, required |-> TRUE] >>,
            on_pass |-> a, on_fail |-> b] : a \in AATargets, b \in AATargets }
    \cup { [id |-> id, type |-> "branch",
            branches |-> << [when |-> [action_result_equals |-> [value |-> "element_selected"]],
                             next |-> a],
                            [when |-> [action_result_equals |-> [value |-> "all_validated"]],
                             next |-> b] >>] : a \in AATargets, b \in AATargets }
    \cup { [id |-> id, type |-> "branch",
            branches |-> << [when |-> [slot_equals |-> [value |-> "all_validated"]],
                             next |-> "end"],
                            [when |-> [action_result_equals |-> [value |-> "all_validated"]],
                             next |-> a],
                            [when |-> [action_result_equals |-> [value |-> "all_validated"]],
                             next |-> b] >>] : a \in AATargets, b \in AATargets }
    \cup { [id |-> id, type |-> "branch", branches |-> <<>>] }
    \cup { [id |-> id, type |-> "loop",
            stop_condition |-> [signal_slot |-> "process_parameters.data_elements"],
            next |-> a, on_stop |-> b] : a \in AATargets, b \in AATargets }
    \cup { [id |-> id, type |-> "questions", questions |-> <<>>, next |-> "end"],
           [id |-> id, type |-> "confirm", on_yes |-> "end", on_no |-> "s1"],
           [id |-> id, type |-> "custom"] }

EndStage == [id |-> "end", type |-> "end"]

AAFlows == { <<x, y, EndStage>> : x \in AAStagesOf("s1"), y \in AAStagesOf("s2") }

InitAA ==
    /\ aflow \in AAFlows
    /\ amax \in 0..MaxBudget
    /\ \E start \in {"s1", "end"}, slots \in AASlots : alocal = AAStart(start, slots)
    /\ apc = "loop"
    /\ aout = ""
    /\ IdleWrite /\ IdleYN /\ IdleTurn /\ IdleGate /\ IdleNode /\ IdleClarify /\ IdleRound /\ IdleSessions /\ IdleRender /\ IdleConfirm /\ IdleLoop /\ IdleWorkflow

\* while steps < max_steps: one pass
AAIterate ==
    /\ apc = "loop"
    /\ AAContinues(alocal, amax)
    /\ alocal' = AABody(aflow, "", alocal)
    /\ UNCHANGED <<aflow, amax, apc, aout, wvars, yvars, svars, gvars, nvars, cvars, rvars, qvars, tvars, kvars, lvars, xvars>>

\* the loop is left: the node returns
AAReturn ==
    /\ apc = "loop"
    /\ ~AAContinues(alocal, amax)
    /\ apc' = "done"
    /\ aout' = AAOutcome(alocal, amax)
    /\ UNCHANGED <<aflow, amax, alocal, wvars, yvars, svars, gvars, nvars, cvars, rvars, qvars, tvars, kvars, lvars, xvars>>

NextAA == AAIterate \/ AAReturn

SpecAA == InitAA /\ [][NextAA]_vars

\* the Python interpreter runs the call to its return
SpecAAFair == SpecAA /\ WF_vars(NextAA)

(***************************************************************************)
(* Specification SpecTurn: sessions of the interview graph.  A turn is     *)
(* load_flow -> ingest_user_answer -> auto_advance -> render_prompt, each  *)
(* node one step; between turns the session rests.  The flows have the     *)
(* stage shapes of the intake, mapping and output flows.                   *)
(***************************************************************************)
MaxTurns == 6
DefaultMaxSteps == 50
\* the limit test_graph_cycle_protection configures
LowMaxSteps == 2

Question(id, ask, save_to) == [id |-> id, ask |-> ask, save_to |-> save_to]

IntakeStages ==
    << [id |-> "welcome", type |-> "message", next |-> "engagement_context"],
       [id |-> "engagement_context", type |-> "questions", next |-> "sipoc_capture",
        questions |-> <<
          [id |-> "process_name",
           ask |-> <<Lit("What do you call this process internally?")>>,
           save_to |-> <<SegKey("engagement"), SegKey("process_name")>>,
           clarify_if |-> << [condition |-> "empty_or_too_short",
                              follow_up |-> "Please provide more detail."] >>],
          Question("organization_type",
                   <<Lit("What type of organization runs "),
                     Ref("engagement.process_name",
                         <<SegKey("engagement"), SegKey("process_name")>>),
                     Lit("?")>>,
                   <<SegKey("engagement"), SegKey("organization_type")>>) >>],
       [id |-> "sipoc_capture", type |-> "questions", next |-> "sipoc_gate",
        questions |-> <<
          Question("suppliers", <<Lit("Who supplies the inputs to this process?")>>,
                   <<SegKey("sipoc"), SegKey("suppliers")>>) >>],
       [id |-> "sipoc_gate", type |-> "gate",
        criteria |-> << [slot |-> <<SegKey("sipoc"), SegKey("suppliers")>>,
                         required |-> TRUE, min_items |-> 1] >>,
        on_pass |-> "sipoc_confirm", on_fail |-> "sipoc_capture"],
       [id |-> "sipoc_confirm", type |-> "confirm",
        summary_template |-> <<Lit("Process: "),
                               Ref("engagement.process_name",
                                   <<SegKey("engagement"), SegKey("process_name")>>),
                               Lit(", suppliers: "),
                               Ref("sipoc.suppliers", <<SegKey("sipoc"), SegKey("suppliers")>>)>>,
        ask |-> "Does this summary look right to you?",
        on_yes |-> "wrap_up", on_no |-> "sipoc_capture"],
       [id |-> "wrap_up", type |-> "output", next |-> "end"],
       [id |-> "end", type |-> "end", prompt |-> <<Lit("Interview complete. Thank you!")>>] >>

IntakeSlots ==
    D2("engagement", D2("process_name", NoneV, "organization_type", NoneV),
       "sipoc", D1("suppliers", EmptyList))

DataElement(name) ==
    Dict([f \in {"name", "definition", "validated"} |->
            IF f = "name" THEN Str(name)
            ELSE IF f = "definition" THEN NoneV ELSE Bool(FALSE)])

MappingStages ==
    << [id |-> "welcome", type |-> "message", next |-> "data_elements_validate_loop"],
       [id |-> "data_elements_validate_loop", type |-> "loop",
        stop_condition |-> [signal_slot |-> "process_parameters.data_elements"],
        next |-> "data_element_one_by_one", on_stop |-> "status_model_capture"],
       [id |-> "data_element_one_by_one", type |-> "action",
        action |-> "select_next_data_element_for_validation",
        next |-> "data_element_branch"],
       [id |-> "data_element_branch", type |-> "branch",
        branches |-> << [when |-> [action_result_equals |-> [value |-> "element_selected"]],
                         next |-> "data_element_questions"],
                        [when |-> [action_result_equals |-> [value |-> "all_validated"]],
                         next |-> "status_model_capture"] >>],
       [id |-> "data_element_questions", type |-> "questions", next |-> "data_element_commit",
        questions |-> <<
          Question("definition",
                   <<Lit("How would you define the data element "),
                     Ref("process_parameters.data_elements[current].name",
                         <<SegKey("process_parameters"), SegCur("data_elements"),
                           SegKey("name")>>),
                     Lit("?")>>,
                   <<SegKey("process_parameters"), SegCur("data_elements"),
                     SegKey("definition")>>) >>],
       [id |-> "data_element_commit", type |-> "action",
        action |-> "commit_validated_data_element",
        next |-> "data_elements_validate_loop"],
       [id |-> "status_model_capture", type |-> "questions", next |-> "end",
        questions |-> <<
          Question("statuses", <<Lit("Which statuses can a work item have?")>>,
                   <<SegKey("status_model"), SegKey("statuses")>>) >>],
       [id |-> "end", type |-> "end"] >>

MappingSlots ==
    D1("process_parameters",
       D2("data_elements", List(<<DataElement("Order ID"), DataElement("Customer")>>),
          "current_data_element_index", Num(0)))

\* a flow whose non-interactive stages form a cycle
OutputStages ==
    << [id |-> "welcome", type |-> "message", next |-> "generate_outputs"],
       [id |-> "generate_outputs", type |-> "output", next |-> "welcome"],
       [id |-> "end", type |-> "end"] >>

SFlows ==
    [flow_id \in {"intake_sipoc_v1", "current_state_mapping_v1", "outputs_v1"} |->
        IF flow_id = "intake_sipoc_v1" THEN [stages |-> IntakeStages, slots |-> IntakeSlots]
        ELSE IF flow_id = "current_state_mapping_v1"
        THEN [stages |-> MappingStages, slots |-> MappingSlots]
        ELSE [stages |-> OutputStages, slots |-> EmptyDict]]

\* create_initial_state
CreateInitialState(flow_id) ==
    [messages |-> <<>>, flow_id |-> flow_id, active_stage_id |-> "welcome",
     slots |-> EmptyDict, pending |-> PNone, error |-> "", retry_count |-> 0,
     auto_advance_count |-> 0, max_auto_advance_steps |-> DefaultMaxSteps,
     question_cursor |-> EmptyCursor]

\* what the user types
SAnswers == { "Yes.", "maybe", "No, fix the third item" }

InitTurn ==
    /\ \E flow_id \in DOMAIN SFlows, max_steps \in {DefaultMaxSteps, LowMaxSteps} :
         session = [CreateInitialState(flow_id) EXCEPT !.max_auto_advance_steps = max_steps]
    /\ before = session
    /\ pc = "rest"
    /\ turns = 0
    /\ IdleWrite /\ IdleYN /\ IdleAA /\ IdleGate /\ IdleNode /\ IdleClarify /\ IdleRound /\ IdleSessions /\ IdleRender /\ IdleConfirm /\ IdleLoop /\ IdleWorkflow

\* the drivers stop on an error and at the end of the interview
CanInvoke ==
    /\ pc = "rest" /\ turns < MaxTurns
    /\ session.error = ""
    /\ ~(session.active_stage_id = "end" /\ session.pending = PNone)

\* graph.invoke after the user's message was appended
UserTurn ==
    /\ CanInvoke
    /\ \E text \in SAnswers :
         session' = [session EXCEPT !.messages = Append(@, HumanMessage(text))]
    /\ before' = session'
    /\ pc' = "load" /\ turns' = turns + 1
    /\ UNCHANGED <<wvars, yvars, avars, gvars, nvars, cvars, rvars, qvars, tvars, kvars, lvars, xvars>>

\* graph.invoke with no new message (the first turn, a repeated invocation)
Invoke ==
    /\ CanInvoke
    /\ before' = session
    /\ pc' = "load" /\ turns' = turns + 1
    /\ UNCHANGED <<session, wvars, yvars, avars, gvars, nvars, cvars, rvars, qvars, tvars, kvars, lvars, xvars>>

LoadFlow ==
    /\ pc = "load"
    /\ session' = LoadFlowNode(SFlows, session)
    /\ pc' = "ingest"
    /\ UNCHANGED <<before, turns, wvars, yvars, avars, gvars, nvars, cvars, rvars, qvars, tvars, kvars, lvars, xvars>>

IngestUserAnswer ==
    /\ pc = "ingest"
    /\ session' = IngestUserAnswerNode(SFlows, session)
    /\ pc' = "auto_advance"
    /\ UNCHANGED <<before, turns, wvars, yvars, avars, gvars, nvars, cvars, rvars, qvars, tvars, kvars, lvars, xvars>>

AutoAdvance ==
    /\ pc = "auto_advance"
    /\ session' = AutoAdvanceNode(SFlows, session)
    /\ pc' = "render"
    /\ UNCHANGED <<before, turns, wvars, yvars, avars, gvars, nvars, cvars, rvars, qvars, tvars, kvars, lvars, xvars>>

\* render_prompt with the cursor the turn started with
RenderPromptStale ==
    /\ pc = "render"
    /\ session' = [RenderPromptNode(SFlows, [session EXCEPT !.question_cursor = before.question_cursor])
                      EXCEPT !.question_cursor = session.question_cursor]
    /\ pc' = "rest"
    /\ UNCHANGED <<before, turns, wvars, yvars, avars, gvars, nvars, cvars, rvars, qvars, tvars, kvars, lvars, xvars>>
RenderPrompt ==
    /\ pc = "render"
    /\ session' = RenderPromptNode(SFlows, session)
    /\ pc' = "rest"
    /\ UNCHANGED <<before, turns, wvars, yvars, avars, gvars, nvars, cvars, rvars, qvars, tvars, kvars, lvars, xvars>>

NextTurn == UserTurn \/ Invoke \/ LoadFlow \/ IngestUserAnswer \/ AutoAdvance \/ RenderPrompt

SpecTurn == InitTurn /\ [][NextTurn]_vars

(***************************************************************************)
(* Specification SpecNode: one call of one pipeline node on a state built  *)
(* by hand, as the unit tests of the nodes do.                             *)
(***************************************************************************)
MaxRules == 2

\* the stage the unit tests of ingest_user_answer_node mock, with a second question
TestStage ==
    [id |-> "test_stage", type |-> "questions", next |-> "end",
     questions |-> << Question("q1", <<Lit("Test?")>>, <<SegKey("test"), SegKey("field")>>),
                      Question("q2", <<Lit("More?")>>, <<SegKey("test"), SegKey("other")>>) >>]

TestFlows == [flow_id \in {"intake_sipoc_v1"} |-> [stages |-> <<TestStage>>, slots |-> EmptyDict]]

ClarifyConditions == { "empty_or_too_short", "vague", "unclear_yes_no" }

FollowUpOf(condition) ==
    IF condition = "empty_or_too_short" THEN "Please provide more detail."
    ELSE IF condition = "vague" THEN "Can you be more specific?"
    ELSE "Is that a yes or a no?"

\* a clarify_if rule, with its follow_up given or left to the default
ClarifyRules ==
    { [condition |-> c, follow_up |-> FollowUpOf(c)] : c \in ClarifyConditions }
    \cup { [condition |-> c] : c \in ClarifyConditions }

\* the pending question: clarify_if, is_clarifying and original_answer are optional
TestPending(given, clarify_if, is_clarifying, original_answer, question_index) ==
    [f \in {"save_to", "question_index"} \cup given |->
        IF f = "save_to" THEN <<SegKey("test"), SegKey("field")>>
        ELSE IF f = "question_index" THEN question_index
        ELSE IF f = "clarify_if" THEN clarify_if
        ELSE IF f = "is_clarifying" THEN is_clarifying
        ELSE original_answer]

TestPendings ==
    { TestPending(given, clarify_if, is_clarifying, original_answer, question_index) :
        given \in { g \in SUBSET {"clarify_if", "is_clarifying", "original_answer"} :
                      "original_answer" \in g => "is_clarifying" \in g },
        clarify_if \in UNION { [1..n -> ClarifyRules] : n \in 0..MaxRules },
        is_clarifying \in BOOLEAN,
        original_answer \in {"", "yes"},
        question_index \in {0, 1} }

\* what the user typed; the command line strips it and passes an empty line on
TestAnswers ==
    { "", "yes", "maybe", "sort of", "idk", "The customer submits through the portal" }

TestSlots == { EmptyDict, D1("test", D1("field", Str("an earlier answer"))) }

IngestState(text, pending, slots) ==
    [CreateInitialState("intake_sipoc_v1") EXCEPT
        !.messages = <<HumanMessage(text)>>,
        !.active_stage_id = "test_stage",
        !.slots = slots,
        !.pending = pending]

IngestCases ==
    { [node |-> "ingest", flows |-> TestFlows, fail |-> "",
       state |-> IngestState(text, pending, slots)] :
        text \in TestAnswers,
        pending \in { p \in TestPendings :
                        "original_answer" \in DOMAIN p => p.is_clarifying },
        slots \in TestSlots }

(***************************************************************************)
(* States that make a node meet a failure: a flow id the loader does not   *)
(* know, a stage id the flow does not have (as the active stage or as a    *)
(* stage's next), an action name execute_action does not know, a write     *)
(* through a slot that holds text.                                         *)
(***************************************************************************)
FaultyFlows ==
    [flow_id \in {"intake_sipoc_v1"} |->
        [stages |-> << [id |-> "welcome", type |-> "message", next |-> "no_such_stage"],
                       [id |-> "enrich", type |-> "action", action |-> "no_such_action",
                        next |-> "test_stage"],
                       TestStage,
                       [id |-> "review", type |-> "confirm", on_yes |-> "end",
                        on_no |-> "test_stage"],
                       [id |-> "end", type |-> "end"] >>,
         slots |-> D1("test", EmptyDict)]]

FlowIds == { "intake_sipoc_v1", "no_such_flow" }
RetryCounts == { 0, 1 }

\* a session of flow_id at stage_id
SessionAt(flow_id, stage_id, slots, retry_count) ==
    [CreateInitialState(flow_id) EXCEPT
        !.active_stage_id = stage_id, !.slots = slots, !.retry_count = retry_count]

\* the failure get_stage(flow_id, stage_id) meets
LookupFailure(flow_id, stage_id) ==
    IF flow_id \notin DOMAIN FaultyFlows THEN "unknown_flow"
    ELSE IF GetStageIn(FaultyFlows[flow_id].stages, stage_id) = NoStage THEN "unknown_stage"
    ELSE ""

LoadCases ==
    { [node |-> "load", flows |-> FaultyFlows,
       fail |-> IF slots = EmptyDict /\ flow_id \notin DOMAIN FaultyFlows
                THEN "unknown_flow" ELSE "",
       state |-> SessionAt(flow_id, "welcome", slots, retry_count)] :
        flow_id \in FlowIds, slots \in TestSlots, retry_count \in RetryCounts }

\* the pending question q1 or the pending confirmation of "review"
FaultyPendings ==
    { TestPending({}, <<>>, FALSE, "", 0),
      TestPending({"is_clarifying", "original_answer"}, <<>>, TRUE, "yes", 0),
      PendingConfirm(FaultyFlows["intake_sipoc_v1"].stages[4]) }

\* slots on which the write of test.field raises: "test" holds text
FaultySlots == { D1("test", Str("text")) }

IngestFaultCases ==
    { [node |-> "ingest", flows |-> FaultyFlows,
       fail |-> IF LookupFailure(flow_id, stage_id) # "" THEN LookupFailure(flow_id, stage_id)
                ELSE IF "save_to" \in DOMAIN pending /\ slots \in FaultySlots
                THEN "failing_write" ELSE "",
       state |-> [SessionAt(flow_id, stage_id, slots, retry_count) EXCEPT
                    !.messages = <<HumanMessage(text)>>, !.pending = pending]] :
        flow_id \in FlowIds, stage_id \in {"test_stage", "review", "no_such_stage"},
        slots \in TestSlots \cup FaultySlots, retry_count \in RetryCounts,
        pending \in FaultyPendings,
        text \in {"Yes.", "The customer submits through the portal"} }

AutoAdvanceCases ==
    { [node |-> "auto_advance", flows |-> FaultyFlows,
       fail |-> IF LookupFailure(flow_id, stage_id) # "" THEN LookupFailure(flow_id, stage_id)
                ELSE IF stage_id = "welcome" THEN "unknown_stage"
                ELSE IF stage_id = "enrich" THEN "unknown_action"
                ELSE "",
       state |-> SessionAt(flow_id, stage_id, slots, retry_count)] :
        flow_id \in FlowIds,
        stage_id \in {"welcome", "enrich", "test_stage", "review", "end", "no_such_stage"},
        slots \in TestSlots, retry_count \in RetryCounts }

RenderCases ==
    { [node |-> "render", flows |-> FaultyFlows,
       fail |-> LookupFailure(flow_id, stage_id),
       state |-> [SessionAt(flow_id, stage_id, slots, retry_count) EXCEPT
                    !.question_cursor = cursor]] :
        flow_id \in FlowIds,
        stage_id \in {"test_stage", "review", "end", "no_such_stage"},
        slots \in TestSlots, retry_count \in RetryCounts,
        cursor \in { EmptyCursor, CursorPut(EmptyCursor, "test_stage", 2) } }

NodeCases == IngestCases \cup LoadCases \cup IngestFaultCases \cup AutoAdvanceCases \cup RenderCases

InitNode ==
    /\ IdleWrite /\ IdleYN /\ IdleAA /\ IdleTurn /\ IdleGate /\ IdleClarify /\ IdleRound /\ IdleSessions /\ IdleRender /\ IdleConfirm /\ IdleLoop /\ IdleWorkflow
    /\ \E case \in NodeCases :
         /\ nflows = case.flows
         /\ nstate = case.state
         /\ nnode = case.node
         /\ nfail = case.fail
         /\ nout = case.state
    /\ ndone = FALSE

\* node(state), its returned updates merged into the state
NodeCall(node, result) ==
    /\ ~ndone /\ nnode = node
    /\ nout' = result
    /\ ndone' = TRUE
    /\ UNCHANGED <<nflows, nstate, nnode, nfail, wvars, yvars, avars, svars, gvars, cvars, rvars, qvars, tvars, kvars, lvars, xvars>>

NodeLoad == NodeCall("load", LoadFlowNode(nflows, nstate))
NodeIngest == NodeCall("ingest", IngestUserAnswerNode(nflows, nstate))
NodeAutoAdvance == NodeCall("auto_advance", AutoAdvanceNode(nflows, nstate))
NodeRender == NodeCall("render", RenderPromptNode(nflows, nstate))

NextNode == NodeLoad \/ NodeIngest \/ NodeAutoAdvance \/ NodeRender

SpecNode == InitNode /\ [][NextNode]_vars

(***************************************************************************)
(* Specification SpecClarify: _should_clarify on the answers of up to      *)
(* MaxHedgeWords words and on the answers of its unit tests.               *)
(***************************************************************************)
MaxHedgeWords == 2

HedgeWords ==
    { "maybe", "I", "think", "so", "not", "sure", "kind", "of", "sort", "idk",
      "probably", "Yes.", "No", "ok" }

\* the answers of TestShouldClarify
ClarifyExamples ==
    { "", "   ", "yes", "ok", "This is a proper answer", "maybe", "I think so", "not sure",
      "kind of", "The customer places an order through the website",
      "Yes, that's correct", "no", "No, that's wrong", "well maybe", "I don't know" }

ClarifyTexts ==
    { JoinWords(ws) : ws \in UNION { [1..n -> HedgeWords] : n \in 1..MaxHedgeWords } }
    \cup ClarifyExamples

InitClarify ==
    /\ IdleWrite /\ IdleYN /\ IdleAA /\ IdleTurn /\ IdleGate /\ IdleNode /\ IdleRound /\ IdleSessions /\ IdleRender /\ IdleConfirm /\ IdleLoop /\ IdleWorkflow
    /\ ctext \in ClarifyTexts
    /\ ccond \in ClarifyConditions \cup {"no_such_condition"}
    /\ cres = FALSE
    /\ cdone = FALSE

\* _should_clarify(user_text, condition)
ClarifyCall ==
    /\ ~cdone
    /\ cres' = ShouldClarify(ctext, ccond)
    /\ cdone' = TRUE
    /\ UNCHANGED <<ctext, ccond, wvars, yvars, avars, svars, gvars, nvars, rvars, qvars, tvars, kvars, lvars, xvars>>

NextClarify == ClarifyCall

SpecClarify == InitClarify /\ [][NextClarify]_vars

(***************************************************************************)
(* Specification SpecRound: two copies of a session take the same turns;   *)
(* one stays in memory, the other is written by _save_state and read back  *)
(* by _load_state before each turn, as the command line does with          *)
(* --state-file.                                                           *)
(***************************************************************************)
MaxRoundTurns == 5

\* graph.invoke: the four nodes in the order of the graph's edges
TurnOf(flows, state) ==
    RenderPromptNode(flows,
        AutoAdvanceNode(flows,
            IngestUserAnswerNode(flows,
                LoadFlowNode(flows, state))))

\* _message_to_dict: the message's type and content
MessageToDict(msg) == [type |-> msg.role, content |-> msg.content]

\* _dict_to_message
DictToMessageNoAI(d) ==
    IF d.type \in {"human", "user"} THEN HumanMessage(d.content)
    ELSE [role |-> "system", content |-> d.content]
DictToMessage(d) ==
    IF d.type \in {"human", "user"} THEN HumanMessage(d.content)
    ELSE IF d.type \in {"ai", "assistant"} THEN AIMessage(d.content)
    ELSE IF d.type = "system" THEN [role |-> "system", content |-> d.content]
    ELSE [role |-> "system", content |-> "[" \o d.type \o "] " \o d.content]

\* json.dumps writes an integer key of a dict as the text of the integer
JsonKey(key) ==
    IF Len(key) > 1 /\ SubSeq(key, 1, 1) = "#" THEN SubSeq(key, 2, Len(key)) ELSE key

\* json.loads(json.dumps(value)) on slot data; of two keys that become the
\* same text one survives
RECURSIVE JsonData(_)
JsonData(value) ==
    IF IsList(value) THEN List([i \in 1..Len(value.v) |-> JsonData(value.v[i])])
    ELSE IF IsDict(value)
    THEN Dict([key \in { JsonKey(k) : k \in DOMAIN value.v } |->
                 JsonData(value.v[CHOOSE k \in DOMAIN value.v : JsonKey(k) = key])])
    ELSE value

\* _save_state: the state with its messages as dicts, as JSON holds it
SaveState(state) ==
    [state EXCEPT !.messages = [i \in 1..Len(state.messages) |-> MessageToDict(state.messages[i])],
                  !.slots = JsonData(state.slots)]

\* _load_state: the JSON document with its messages rebuilt
LoadState(raw) ==
    [raw EXCEPT !.messages = [i \in 1..Len(raw.messages) |-> DictToMessage(raw.messages[i])]]

InitRound ==
    /\ IdleWrite /\ IdleYN /\ IdleAA /\ IdleTurn /\ IdleGate /\ IdleNode /\ IdleClarify /\ IdleSessions /\ IdleRender /\ IdleConfirm /\ IdleLoop /\ IdleWorkflow
    /\ \E flow_id \in DOMAIN SFlows, max_steps \in {DefaultMaxSteps, LowMaxSteps} :
         rlive = [CreateInitialState(flow_id) EXCEPT !.max_auto_advance_steps = max_steps]
    /\ rcopy = rlive
    /\ rturns = 0

\* the drivers stop on an error and at the end of the interview
CanRound ==
    /\ rturns < MaxRoundTurns
    /\ rlive.error = ""
    /\ ~(rlive.active_stage_id = "end" /\ rlive.pending = PNone)

\* the user's text is appended, the copy is saved and loaded, the graph runs
RoundUserTurn ==
    /\ CanRound
    /\ \E text \in SAnswers :
         /\ rlive' = TurnOf(SFlows, [rlive EXCEPT !.messages = Append(@, HumanMessage(text))])
         /\ rcopy' = TurnOf(SFlows,
                            LoadState(SaveState(
                                [rcopy EXCEPT !.messages = Append(@, HumanMessage(text))])))
    /\ rturns' = rturns + 1
    /\ UNCHANGED <<wvars, yvars, avars, svars, gvars, nvars, cvars, qvars, tvars, kvars, lvars, xvars>>

\* the graph runs with no new message (the first turn, a resumed session)
RoundInvoke ==
    /\ CanRound
    /\ rlive' = TurnOf(SFlows, rlive)
    /\ rcopy' = TurnOf(SFlows, LoadState(SaveState(rcopy)))
    /\ rturns' = rturns + 1
    /\ UNCHANGED <<wvars, yvars, avars, svars, gvars, nvars, cvars, qvars, tvars, kvars, lvars, xvars>>

NextRound == RoundUserTurn \/ RoundInvoke

SpecRound == InitRound /\ [][NextRound]_vars

(***************************************************************************)
(* TemplateRenderer.render on the text of a template: re.sub with the      *)
(* pattern \{\{([^}]+)\}\} and, per match, _get_nested_value on the text   *)
(* of the path.  A result is [st, text]: st = "raise" when an exception    *)
(* leaves the function.                                                    *)
(***************************************************************************)
\* t.split(c) for a character c
RECURSIVE SplitFrom(_, _, _, _, _)
SplitFrom(t, c, i, word, acc) ==
    IF i > Len(t) THEN Append(acc, word)
    ELSE IF CharAt(t, i) = c THEN SplitFrom(t, c, i + 1, "", Append(acc, word))
    ELSE SplitFrom(t, c, i + 1, word \o CharAt(t, i), acc)
Split(t, c) == SplitFrom(t, c, 1, "", <<>>)

RECURSIVE RStripChar(_, _)
\* t.rstrip(c)
RStripChar(t, c) ==
    IF t # "" /\ CharAt(t, Len(t)) = c THEN RStripChar(SubSeq(t, 1, Len(t) - 1), c) ELSE t

IsDigits(t) == t # "" /\ \A i \in 1..Len(t) : \E d \in 1..10 : CharAt(DigitChars, d) = CharAt(t, i)
DigitValue(c) == (CHOOSE d \in 1..10 : CharAt(DigitChars, d) = c) - 1
RECURSIVE IntOf(_)
\* int(t) for a text of digits
IntOf(t) == IF t = "" THEN 0 ELSE 10 * IntOf(SubSeq(t, 1, Len(t) - 1)) + DigitValue(CharAt(t, Len(t)))

\* one dot-separated part as the loop reads it: [st, seg] with st = "ok",
\* "none" (int() raised ValueError, which is caught: the read returns None)
\* or "raise" (key, idx_str = part.split("[") does not unpack)
ParsePart(part) ==
    IF Contains(part, "[") /\ Contains(part, "]")
    THEN LET halves == Split(part, "[")
             key == halves[1]
             idx_str == RStripChar(halves[2], "]")
         IN IF Len(halves) # 2 THEN [st |-> "raise", seg |-> SegKey(part)]
            ELSE IF idx_str = "current" THEN [st |-> "ok", seg |-> SegCur(key)]
            ELSE IF IsDigits(idx_str) THEN [st |-> "ok", seg |-> SegIdx(key, IntOf(idx_str))]
            ELSE [st |-> "none", seg |-> SegKey(part)]
    ELSE [st |-> "ok", seg |-> SegKey(part)]

\* the loop over parts of _get_nested_value: [st, v]
RECURSIVE GetNestedParts(_, _)
GetNestedParts(cur, parts) ==
    IF parts = <<>> THEN [st |-> "ok", v |-> cur]
    ELSE IF IsNone(cur) THEN [st |-> "ok", v |-> NoneV]
    ELSE LET p == ParsePart(Head(parts))
         IN IF p.st = "raise" THEN [st |-> "raise", v |-> NoneV]
            ELSE IF p.st = "none" THEN [st |-> "ok", v |-> NoneV]
            ELSE GetNestedParts(GetNested(cur, <<p.seg>>), Tail(parts))

\* _get_nested_value(data, path) for the text of a path
GetNestedValue(data, path) == GetNestedParts(data, Split(path, "."))

\* str(value) of a scalar, json.dumps of a list or dict
ValueText(value) ==
    IF IsList(value) \/ IsDict(value) THEN JsonDumps(value)
    ELSE IF IsStr(value) THEN value.v
    ELSE IF IsInt(value) THEN ToString(value.v)
    ELSE IF value.v THEN "True" ELSE "False"

\* replacer(match) for the text of group 1: [st, text]
Replacer(group, slots) ==
    LET path == Strip(group)
        r == GetNestedValue(slots, path)
    IN IF r.st = "raise" THEN [st |-> "raise", text |-> ""]
       ELSE IF IsNone(r.v) THEN [st |-> "ok", text |-> "[" \o path \o "]"]
       ELSE [st |-> "ok", text |-> ValueText(r.v)]

\* the position of the first "}" of t from i on (Len(t) + 1: none)
RECURSIVE NextClose(_, _)
NextClose(t, i) == IF i > Len(t) \/ CharAt(t, i) = "}" THEN i ELSE NextClose(t, i + 1)

\* the pattern matches at i: "{{", one or more characters other than "}",
\* then "}}"; the position of that "}}", or 0
MatchAt(t, i) ==
    LET j == NextClose(t, i + 2)
    IN IF /\ i + 1 <= Len(t) /\ SubSeq(t, i, i + 1) = "{{"
          /\ j > i + 2
          /\ j + 1 <= Len(t) /\ SubSeq(t, j, j + 1) = "}}"
       THEN j ELSE 0

\* re.sub: the matches from left to right, none overlapping, the text
\* between them kept, the replacements never scanned again
RECURSIVE SubFrom(_, _, _)
SubFrom(t, i, slots) ==
    IF i > Len(t) THEN [st |-> "ok", text |-> ""]
    ELSE LET j == MatchAt(t, i)
             this == IF j = 0 THEN [st |-> "ok", text |-> CharAt(t, i)]
                     ELSE Replacer(SubSeq(t, i + 2, j - 1), slots)
             rest == SubFrom(t, IF j = 0 THEN i + 1 ELSE j + 2, slots)
         IN IF this.st = "raise" \/ rest.st = "raise" THEN [st |-> "raise", text |-> ""]
            ELSE [st |-> "ok", text |-> this.text \o rest.text]

RenderText(template, slots) ==
    IF template = "" THEN [st |-> "ok", text |-> ""] ELSE SubFrom(template, 1, slots)

(***************************************************************************)
(* Specification SpecRender: TemplateRenderer.render on a template made of *)
(* up to MaxPieces pieces, literal text or a placeholder.                  *)
(***************************************************************************)
MaxPieces == 2

\* a placeholder: "{{", blanks, the text of a path, blanks, "}}"
Placeholder(before_path, text, after_path, path) ==
    [before_path |-> before_path, text |-> text, after_path |-> after_path, path |-> path]

RenderPieces ==
    { Lit("Process: "), Lit(" {x} and "), Lit(""),
      Placeholder("", "engagement.process_name", "",
                  <<SegKey("engagement"), SegKey("process_name")>>),
      Placeholder(" ", "engagement.process_name", " ",
                  <<SegKey("engagement"), SegKey("process_name")>>),
      Placeholder("", "engagement.missing_field", "",
                  <<SegKey("engagement"), SegKey("missing_field")>>),
      Placeholder("\t", "workflows.maps[0].trigger", "\n",
                  <<SegKey("workflows"), SegIdx("maps", 0), SegKey("trigger")>>),
      Placeholder("", "workflows.maps[current]", " ",
                  <<SegKey("workflows"), SegCur("maps")>>),
      Placeholder("", "workflows.maps", "", <<SegKey("workflows"), SegKey("maps")>>),
      Placeholder("", "workflows.maps.steps[1]", "",
                  <<SegKey("workflows"), SegKey("maps"), SegIdx("steps", 1)>>),
      Placeholder("", "engagement", "", <<SegKey("engagement")>>),
      Placeholder("", "count", "", <<SegKey("count")>>) }

RenderSlots ==
    { EmptyDict,
      D1("engagement", EmptyDict),
      D2("engagement", D1("process_name", Str("Order Fulfillment")),
         "workflows", D1("maps", List(<<D1("trigger", Str("Order confirmed")),
                                        D1("trigger", Str("Rush request"))>>))),
      D2("engagement", D1("process_name", Str("{{engagement.missing_field}}")),
         "workflows", D2("maps", List(<<Str("{{count}}"), Str("b")>>),
                         "current_map_index", Num(1))),
      D2("engagement", D1("process_name", Str("")), "count", Num(3)),
      D2("engagement", D1("process_name", NoneV), "count", Bool(TRUE)) }

PieceText(piece) ==
    IF "lit" \in DOMAIN piece THEN piece.lit
    ELSE "{{" \o piece.before_path \o piece.text \o piece.after_path \o "}}"

RECURSIVE TemplateText(_)
TemplateText(pieces) ==
    IF pieces = <<>> THEN "" ELSE PieceText(Head(pieces)) \o TemplateText(Tail(pieces))

InitRender ==
    /\ IdleWrite /\ IdleYN /\ IdleAA /\ IdleTurn /\ IdleGate /\ IdleNode /\ IdleClarify
    /\ IdleRound /\ IdleSessions /\ IdleConfirm /\ IdleLoop /\ IdleWorkflow
    /\ tpieces \in UNION { [1..n -> RenderPieces] : n \in 0..MaxPieces }
    /\ tslots \in RenderSlots
    /\ tout = ""
    /\ tdone = FALSE

\* TemplateRenderer.render(template, slots)
RenderCall ==
    /\ ~tdone
    /\ tout' = RenderText(TemplateText(tpieces), tslots)
    /\ tdone' = TRUE
    /\ UNCHANGED <<tpieces, tslots, wvars, yvars, avars, svars, gvars, nvars, cvars, rvars, qvars, kvars, lvars, xvars>>

NextRender == RenderCall

SpecRender == InitRender /\ [][NextRender]_vars

(***************************************************************************)
(* Specification SpecSessions: two sessions of one flow id in one process  *)
(* take turns in any order.  They share the module's FlowLoader and its    *)
(* cache.  Python objects are shared by reference: slots that are the      *)
(* cached template itself would be written in place by every session that  *)
(* holds them, so the model records per session whether its slots are the  *)
(* template's objects.                                                     *)
(***************************************************************************)
MaxSessionTurns == 3

Sessions == 1..2

\* FlowLoader.get_initial_slots: copy.deepcopy of context.slots, an object
\* of its own
GetInitialSlotsByReference(cache, flow_id) == [slots |-> cache[flow_id].slots, shared |-> TRUE]
GetInitialSlots(cache, flow_id) == [slots |-> cache[flow_id].slots, shared |-> FALSE]

\* what the user of a session does in a turn: a text, or nothing ("" stands
\* for an invocation without a new message)
SessionInputs == { "Yes.", "No, fix the third item", "" }

WithInput(state, input) ==
    IF input = "" THEN state
    ELSE [state EXCEPT !.messages = Append(@, HumanMessage(input))]

\* the objects under the top-level keys of the template after a session
\* that shares them wrote its slots in place (SlotWriter.write mutates; the
\* nodes copy only the top level of state["slots"])
WrittenInPlace(template, slots) ==
    Dict([key \in DOMAIN template.v |->
            IF Has(slots, key) THEN slots.v[key] ELSE template.v[key]])

\* the session state a fresh session reaches alone on the inputs, in order
RECURSIVE RunAlone(_, _)
RunAlone(state, inputs) ==
    IF inputs = <<>> THEN state
    ELSE RunAlone(TurnOf(SFlows, WithInput(state, Head(inputs))), Tail(inputs))

InitSessions ==
    /\ IdleWrite /\ IdleYN /\ IdleAA /\ IdleTurn /\ IdleGate /\ IdleNode /\ IdleClarify
    /\ IdleRound /\ IdleRender /\ IdleConfirm /\ IdleLoop /\ IdleWorkflow
    /\ qcache = SFlows
    /\ \E flow_id \in DOMAIN SFlows : qsess = [i \in Sessions |-> CreateInitialState(flow_id)]
    /\ qshared = [i \in Sessions |-> FALSE]
    /\ qin = [i \in Sessions |-> <<>>]

\* graph.invoke of session i, its thread's state and the shared loader
SessionTurn(i, input) ==
    LET state == qsess[i]
        flow_id == state.flow_id
        seeds == state.slots = EmptyDict /\ flow_id \in DOMAIN qcache
        shared == IF seeds THEN GetInitialSlots(qcache, flow_id).shared ELSE qshared[i]
        result == TurnOf(qcache, WithInput(state, input))
    IN /\ Len(qin[i]) < MaxSessionTurns
       /\ state.error = ""
       /\ ~(state.active_stage_id = "end" /\ state.pending = PNone)
       /\ qin' = [qin EXCEPT ![i] = Append(@, input)]
       /\ qshared' = [qshared EXCEPT ![i] = shared]
       /\ qcache' = IF shared
                    THEN [qcache EXCEPT ![flow_id].slots = WrittenInPlace(@, result.slots)]
                    ELSE qcache
       /\ qsess' = [j \in Sessions |->
                      IF j = i THEN result
                      ELSE IF shared /\ qshared[j]
                      THEN [qsess[j] EXCEPT !.slots = WrittenInPlace(@, result.slots)]
                      ELSE qsess[j]]
       /\ UNCHANGED <<wvars, yvars, avars, svars, gvars, nvars, cvars, rvars, tvars, kvars, lvars, xvars>>

SessionUserTurn == \E i \in Sessions, input \in SessionInputs \ {""} : SessionTurn(i, input)
SessionInvoke == \E i \in Sessions : SessionTurn(i, "")

NextSessions == SessionUserTurn \/ SessionInvoke

SpecSessions == InitSessions /\ [][NextSessions]_vars

(***************************************************************************)
(* Specification SpecConfirm: a session of the intake flow that has come   *)
(* to its confirmation receives up to MaxConfirmTurns answers to it.       *)
(***************************************************************************)
MaxConfirmTurns == 4

\* the inputs of the four turns before the confirmation of the intake flow:
\* the first invocation and the answers to the three questions
ConfirmPrefixes == [1..4 -> SAnswers \cup {""}]

ConfirmAnswers == { "Yes.", "maybe", "hmm, what do you mean?", "No, fix the third item" }

InitConfirm ==
    /\ IdleWrite /\ IdleYN /\ IdleAA /\ IdleTurn /\ IdleGate /\ IdleNode /\ IdleClarify
    /\ IdleRound /\ IdleSessions /\ IdleRender /\ IdleLoop /\ IdleWorkflow
    /\ \E inputs \in ConfirmPrefixes :
         ksess = RunAlone(CreateInitialState("intake_sipoc_v1"), inputs)
    \* the session has come to a confirmation
    /\ ksess.error = ""
    /\ ksess.pending # PNone /\ "confirm_id" \in DOMAIN ksess.pending
    /\ kbefore = ksess
    /\ kturns = 0

\* the user answers and graph.invoke runs the turn
ConfirmTurn ==
    /\ kturns < MaxConfirmTurns
    /\ ksess.error = ""
    /\ ksess.pending # PNone /\ "confirm_id" \in DOMAIN ksess.pending
    /\ \E text \in ConfirmAnswers :
         /\ kbefore' = WithInput(ksess, text)
         /\ ksess' = TurnOf(SFlows, WithInput(ksess, text))
    /\ kturns' = kturns + 1
    /\ UNCHANGED <<wvars, yvars, avars, svars, gvars, nvars, cvars, rvars, qvars, tvars, lvars, xvars>>

NextConfirm == ConfirmTurn

SpecConfirm == InitConfirm /\ [][NextConfirm]_vars

(***************************************************************************)
(* Specification SpecWorkflow: sessions of a step capture flow: the user   *)
(* says what happens next, copy_next_step_to_buffer opens a buffer for the *)
(* step, two stages ask about the step, and the flow comes back to asking  *)
(* what happens next.  One step is one turn of the graph.                  *)
(***************************************************************************)
MaxWorkflowTurns == 6

WorkflowStages ==
    << [id |-> "welcome", type |-> "message", next |-> "workflow_ask_next_step"],
       [id |-> "workflow_ask_next_step", type |-> "questions", next |-> "workflow_copy_next_step",
        questions |-> <<
          Question("next_step", <<Lit("What happens next in the process?")>>,
                   <<SegKey("workflow_capture_state"), SegKey("next_step_response")>>) >>],
       [id |-> "workflow_copy_next_step", type |-> "action",
        action |-> "copy_next_step_to_buffer",
        next |-> "workflow_step_capture__owner"],
       [id |-> "workflow_step_capture__owner", type |-> "questions",
        next |-> "workflow_step_notes",
        questions |-> <<
          Question("owner", <<Lit("Which role performs this step?")>>,
                   <<SegKey("workflow_capture_state"), SegKey("active_step_buffer"),
                     SegKey("owner_role")>>) >>],
       [id |-> "workflow_step_notes", type |-> "questions", next |-> "workflow_ask_next_step",
        questions |-> <<
          Question("notes", <<Lit("Is there anything to note about this step?")>>,
                   <<SegKey("workflow_notes")>>) >>],
       [id |-> "end", type |-> "end"] >>

WorkflowFlows ==
    [flow_id \in {"workflow_capture_v1"} |-> [stages |-> WorkflowStages, slots |-> EmptyDict]]

WorkflowAnswers == { "We log the order", "The clerk" }

InitWorkflow ==
    /\ IdleWrite /\ IdleYN /\ IdleAA /\ IdleTurn /\ IdleGate /\ IdleNode /\ IdleClarify
    /\ IdleRound /\ IdleSessions /\ IdleRender /\ IdleConfirm /\ IdleLoop
    /\ \E max_steps \in {DefaultMaxSteps, LowMaxSteps} :
         xsess = [CreateInitialState("workflow_capture_v1") EXCEPT
                    !.max_auto_advance_steps = max_steps]
    /\ xbefore = xsess
    /\ xauto = xsess
    /\ xturns = 0

\* graph.invoke on the session, after the user's message was appended if any
WorkflowTurn ==
    /\ xturns < MaxWorkflowTurns
    /\ xsess.error = ""
    /\ \E text \in WorkflowAnswers \cup {""} :
         LET state == WithInput(xsess, text)
             ingested == IngestUserAnswerNode(WorkflowFlows, LoadFlowNode(WorkflowFlows, state))
         IN /\ xbefore' = state
            /\ xauto' = ingested
            /\ xsess' = RenderPromptNode(WorkflowFlows, AutoAdvanceNode(WorkflowFlows, ingested))
    /\ xturns' = xturns + 1
    /\ UNCHANGED <<wvars, yvars, avars, svars, gvars, nvars, cvars, rvars, qvars, tvars, kvars, lvars>>

NextWorkflow == WorkflowTurn

SpecWorkflow == InitWorkflow /\ [][NextWorkflow]_vars

(***************************************************************************)
(* Specification SpecLoop: one pass of auto_advance_node through a loop    *)
(* stage on each of two slot structures, for loop stages with several      *)
(* signal slots.                                                           *)
(***************************************************************************)
LoopSignals == {"process_parameters.data_elements", "flag", "workflows.maps[current].steps"}

LoopStages ==
    { [id |-> "s1", type |-> "loop", stop_condition |-> [signal_slot |-> sig],
       next |-> a, on_stop |-> b] : sig \in LoopSignals, a \in {"s1", "s2"}, b \in {"s2", "end"} }
    \cup { [id |-> "s1", type |-> "loop", next |-> "s2", on_stop |-> "end"] }

LoopMaps(steps) ==
    D2("maps", List(<<D1("steps", List(steps))>>), "current_map_index", Num(0))

\* the selected element after the user has given its definition
LoopDefined ==
    D1("process_parameters",
       D2("data_elements", List(<<Put(AAElement(FALSE), "definition", Str("x"))>>),
          "current_data_element_index", Num(0)))

\* slots as the session has them at a loop stage: the data elements before
\* and after the select and commit actions, the flag set or absent, the
\* steps of the current map empty or filled
LoopSlots ==
    LET base == { Put(Put(s, "flag", flag), "workflows", LoopMaps(steps)) :
                    s \in AASlots \cup {LoopDefined}, flag \in {Str("set"), NoneV},
                    steps \in {<<>>, <<Str("a")>>} }
        After(act, set) == { ExecuteAction(act, s, "").slots : s \in set }
    IN base \cup After("commit_validated_data_element", base)
            \cup After("select_next_data_element_for_validation",
                       After("commit_validated_data_element", base))

InitLoop ==
    /\ IdleWrite /\ IdleYN /\ IdleAA /\ IdleTurn /\ IdleGate /\ IdleNode /\ IdleClarify
    /\ IdleRound /\ IdleSessions /\ IdleRender /\ IdleConfirm /\ IdleWorkflow
    /\ lstage \in LoopStages
    /\ lslots \in LoopSlots \X LoopSlots
    /\ lroute = <<>>
    /\ ldone = FALSE

\* auto_advance_node at the loop stage, budget one step
LoopRoute(stage, slots) ==
    AABody(<<stage, [id |-> "s2", type |-> "questions", questions |-> <<>>, next |-> "end"], EndStage>>,
           "", AAStart(stage.id, slots))

LoopPass ==
    /\ ~ldone
    /\ lroute' = <<LoopRoute(lstage, lslots[1]).stage, LoopRoute(lstage, lslots[2]).stage>>
    /\ ldone' = TRUE
    /\ UNCHANGED <<lstage, lslots, wvars, yvars, avars, svars, gvars, nvars, cvars, rvars, qvars, tvars, kvars, xvars>>

NextLoop == LoopPass

SpecLoop == InitLoop /\ [][NextLoop]_vars

(***************************************************************************)
(* Specification SpecWrite: a series of SlotWriter.write calls on one path *)
(* of one slot structure, each followed by a read of that path.            *)
(***************************************************************************)
MaxPathLen == 2
MaxIdx == 1
MaxWrites == 2

WKeys == {"xs", "b"}

WSegs == {SegKey(key) : key \in WKeys}
         \cup {SegIdx(key, n) : key \in WKeys, n \in 0..MaxIdx}
         \cup {SegCur("xs")}

\* paths of three parts: the dotted path a.b.c and the shapes of the flows
\* (workflows.maps[0].trigger, process_parameters.data_elements[current].name)
WDeepPaths ==
    { <<SegKey("b"), SegKey("xs"), SegKey("b")>>,
      <<SegKey("b"), SegIdx("xs", 0), SegKey("b")>>,
      <<SegKey("b"), SegCur("xs"), SegKey("b")>>,
      <<SegIdx("xs", 1), SegKey("b"), SegIdx("xs", 0)>>,
      <<SegKey("xs"), SegKey("b"), SegKey("xs")>>,
      <<SegIdx("xs", 0), SegIdx("b", 0), SegKey("b")>> }

WPaths == UNION { [1..n -> WSegs] : n \in 1..MaxPathLen } \cup WDeepPaths

WValues == { Str("x"), Str("y"), List(<<Str("z")>>) }

WRoots ==
    { EmptyDict,
      D1("xs", EmptyList),
      D1("xs", List(<<Str("q")>>)),
      D1("xs", List(<<EmptyDict>>)),
      D1("xs", List(<<NoneV>>)),
      D1("xs", Str("old")),
      D1("xs", D1("b", Num(7))),
      D1("xs", D2("b", Num(7), "xs", EmptyList)),
      D2("xs", List(<<D1("b", Str("old"))>>), "current_x_index", Num(0)),
      D2("xs", List(<<Str("q"), Str("r")>>), "current_x_index", Num(1)),
      D2("xs", List(<<D1("b", EmptyList)>>), "xs_current_index", Num(0)),
      D2("xs", List(<<Str("q")>>), "current_x_index", NoneV),
      D2("xs", EmptyList, "current_x_index", Num(0)),
      D2("xs", List(<<Str("q")>>), "current_x_index", Str("0")),
      D2("xs", D1("b", Num(7)), "current_x_index", Num(0)),
      D1("b", EmptyDict),
      D1("b", Str("old")),
      D1("b", NoneV),
      D1("b", EmptyList),
      D1("b", List(<<Str("q"), Str("r")>>)),
      D1("b", D1("b", Str("old"))),
      D1("b", D1("xs", List(<<Str("q")>>))),
      D1("b", D1("xs", List(<<D1("b", List(<<Str("q")>>))>>))),
      D1("b", D2("xs", List(<<D1("b", Str("old"))>>), "current_x_index", Num(0))),
      D2("b", D1("b", EmptyList), "xs", List(<<EmptyDict, D1("b", Str("old"))>>)),
      D1("xs", List(<<List(<<D1("b", EmptyList)>>)>>)) }

InitWrite ==
    /\ IdleYN /\ IdleAA /\ IdleTurn /\ IdleGate /\ IdleNode /\ IdleClarify /\ IdleRound /\ IdleSessions /\ IdleRender /\ IdleConfirm /\ IdleLoop /\ IdleWorkflow
    /\ wdata0 \in WRoots
    /\ wcur = wdata0
    /\ wprev = wdata0
    /\ wpath \in WPaths
    /\ wvals = <<>>
    /\ wsts = <<>>

\* one call SlotWriter.write(slots, save_to, value)
WriteCall ==
    /\ Len(wvals) < MaxWrites
    /\ \E value \in WValues :
         LET r == SlotWrite(wcur, wpath, value)
         IN /\ wcur' = r.d
            /\ wprev' = wcur
            /\ wvals' = Append(wvals, value)
            /\ wsts' = Append(wsts, r.st)
    /\ UNCHANGED <<wdata0, wpath, yvars, avars, svars, gvars, nvars, cvars, rvars, qvars, tvars, kvars, lvars, xvars>>

NextWrite == WriteCall

SpecWrite == InitWrite /\ [][NextWrite]_vars

SpecYN == InitYN /\ [][NextYN]_vars

(***************************************************************************)
(* Properties of auto_advance_node (checked under SpecAAFair)              *)
(***************************************************************************)
AAStageType == SGet(GetStageIn(aflow, alocal.stage), "type", "")
AAStoppedAtStage ==
    \/ AAStageType \in {"questions", "confirm"}
    \/ alocal.stage = "end"
    \/ AAStageType \notin {"message", "action", "gate", "branch", "loop", "output"}

\* C1: one call of auto_advance_node never makes more passes than the step
\* budget, always returns, and returns either with the loop stopped at a
\* questions stage, a confirm stage, the end stage or a stage of unknown
\* type, or with the budget-exhaustion error.
C1_AutoAdvanceTerminates ==
    /\ [](alocal.steps <= amax)
    /\ [](apc = "done" =>
            \/ aout = "ok" /\ alocal.halted /\ AAStoppedAtStage /\ alocal.steps < amax
            \/ aout = "budget" /\ alocal.steps = amax)
    /\ <>(apc = "done")

\* a cycle of non-interactive stages used up a positive budget
C1_Witness ==
    /\ apc = "done" /\ aout = "budget" /\ amax = MaxBudget
    /\ alocal.steps = MaxBudget
    /\ alocal.stage = "s1"
    /\ AAStageType \in {"message", "action", "gate", "branch", "loop", "output"}

(***************************************************************************)
(* Properties of the turn (checked under SpecTurn)                         *)
(***************************************************************************)
StageOf(s) == GetStageIn(SFlows[s.flow_id].stages, s.active_stage_id)
StageTypeOf(s) == SGet(StageOf(s), "type", "")
QuestionsOf(s) == SGet(StageOf(s), "questions", <<>>)
LastMessage(s) == s.messages[Len(s.messages)]
IsPendingQuestion(p) ==
    {"save_to", "question_id", "question_index"} \subseteq DOMAIN p /\ "confirm_id" \notin DOMAIN p
IsPendingConfirm(p) == "confirm_id" \in DOMAIN p /\ "save_to" \notin DOMAIN p

\* the turn that starts in s carries an answer to the pending question of a
\* questions stage, and ingest accepts it: no clarification, the write returns
Accepted(s) ==
    /\ s.messages # <<>> /\ LastMessage(s).role = "human"
    /\ IsPendingQuestion(s.pending)
    /\ StageTypeOf(s) = "questions"
    /\ \/ SGet(s.pending, "is_clarifying", FALSE)
       \/ FirstClarifyRule(s.pending.clarify_if, LastMessage(s).content) = 0
    /\ SlotWrite(s.slots, s.pending.save_to, Str(LastMessage(s).content)).st = "ok"

\* the value at save_to is the answer, or a list that ends with it
AnswerAt(slots, save_to, answer) ==
    LET value == GetNested(slots, save_to)
    IN \/ value = Str(answer)
       \/ IsList(value) /\ value.v # <<>> /\ value.v[Len(value.v)] = Str(answer)

\* C3: when ingest writes the answer to the last question of a questions
\* stage, the active stage becomes the stage's next, the stage has no entry
\* in question_cursor any more and pending is None after ingest; and the
\* prompt the turn ends with is the one of the stage then active, which is
\* not the completed stage.
C3_LastAnswerClearsCursor ==
    /\ [][ (pc = "ingest" /\ Accepted(session)
            /\ session.pending.question_index = Len(QuestionsOf(session)) - 1)
           => /\ session'.active_stage_id = SGet(StageOf(session), "next", "end")
              /\ session.active_stage_id \notin DOMAIN session'.question_cursor
              /\ session'.pending = PNone ]_vars
    /\ [](pc = "rest" /\ turns > 0 /\ Accepted(before)
          /\ before.pending.question_index = Len(QuestionsOf(before)) - 1
          => /\ session.active_stage_id # before.active_stage_id
             /\ \/ session.active_stage_id = "end"
                \/ /\ session.pending # PNone
                   /\ LastMessage(session).role = "ai"
                   /\ \/ /\ IsPendingQuestion(session.pending)
                         /\ LastMessage(session).content = session.pending.ask
                      \/ IsPendingConfirm(session.pending))

\* C4: a turn that carries an accepted answer to question i < n-1 of a
\* questions stage leaves the answer at question i's save_to, keeps the
\* active stage, sets the stage's cursor to i+1 and ends with question i+1
\* asked and pending.
C4_AcceptedAnswerAsksNext ==
    (pc = "rest" /\ turns > 0 /\ Accepted(before)
     /\ before.pending.question_index < Len(QuestionsOf(before)) - 1)
    => LET stage_id == before.active_stage_id
           i == before.pending.question_index
           q_next == QuestionsOf(before)[i + 2]
       IN /\ AnswerAt(session.slots, before.pending.save_to, LastMessage(before).content)
          /\ session.active_stage_id = stage_id
          /\ stage_id \in DOMAIN session.question_cursor
          /\ session.question_cursor[stage_id] = i + 1
          /\ IsPendingQuestion(session.pending)
          /\ session.pending.question_index = i + 1
          /\ session.pending.question_id = q_next.id
          /\ LastMessage(session) = AIMessage(session.pending.ask)

\* the recent bot messages hold one message of more than 20 characters 3
\* times or more
RepeatedInRecent(messages) ==
    LET recent == RecentAIMessages(messages)
    IN \E i \in 1..Len(recent) :
         Len(recent[i]) > ShortMessage /\ Count(recent, recent[i]) >= RepeatLimit

\* C5: whenever the recent bot messages hold the same message of more than
\* 20 characters 3 times or more, the next render_prompt_node call emits the
\* transition message, clears pending and moves to the active stage's next;
\* so the message a render call emits is never the 4th copy of a message of
\* more than 20 characters among the recent bot messages.
C5_RepeatedPromptForcesAdvance ==
    /\ [][ (pc = "render" /\ RepeatedInRecent(session.messages))
            => /\ session'.messages = Append(session.messages, AIMessage(MovingOn))
               /\ session'.pending = PNone
               /\ session'.active_stage_id = SGet(StageOf(session), "next", "end") ]_vars
    /\ [][ pc = "render"
            => LET recent == RecentAIMessages(session'.messages)
               IN Len(recent[1]) > ShortMessage => Count(recent, recent[1]) <= RepeatLimit ]_vars

\* C6: at every rest point with no error set, pending is None, or a
\* PendingQuestion while the active stage is a questions stage and its
\* question_index is that stage's cursor, or a PendingConfirm while the
\* active stage is the confirm stage its confirm_id names.
C6_PendingMatchesStage ==
    (pc = "rest" /\ session.error = "")
    => \/ session.pending = PNone
       \/ /\ IsPendingQuestion(session.pending)
          /\ StageTypeOf(session) = "questions"
          /\ session.pending.question_index
               = CursorGet(session.question_cursor, session.active_stage_id)
          /\ session.pending.question_index < Len(QuestionsOf(session))
          /\ session.pending.question_id
               = QuestionsOf(session)[session.pending.question_index + 1].id
       \/ /\ IsPendingConfirm(session.pending)
          /\ StageTypeOf(session) = "confirm"
          /\ session.pending.confirm_id = session.active_stage_id

\* a clarification turn was followed by the question asked again, and a
\* later turn reached the confirm stage
C6_Witness ==
    /\ pc = "rest" /\ session.error = ""
    /\ IsPendingConfirm(session.pending)
    /\ session.active_stage_id = "sipoc_confirm"
    /\ \E i \in 1..Len(session.messages) :
         session.messages[i] = AIMessage("Please provide more detail.")

\* C7: at every rest point with no error set, a confirm stage, or a
\* questions stage with unanswered questions, has its pending interaction
\* outstanding: pending is None only at the end stage or at a stage that
\* needs no input.
C7_NoPendingOnlyWhenNoInput ==
    (/\ pc = "rest" /\ turns > 0 /\ session.error = ""
     /\ \/ StageTypeOf(session) = "confirm"
        \/ /\ StageTypeOf(session) = "questions"
           /\ CursorGet(session.question_cursor, session.active_stage_id)
                < Len(QuestionsOf(session)))
    => session.pending # PNone

(***************************************************************************)
(* Properties of the confirm transition (checked under SpecYN)             *)
(***************************************************************************)
\* C2: a confirm stage routes an affirmative response to on_yes, a negative
\* one to on_no and an unclear one to its own id, never to on_no; "Yes." is
\* affirmative, "No, fix the third item" negative and "maybe" unclear.
C2_ConfirmRouting ==
    ydone =>
        /\ ParseYesNo(yresp) = "yes" => ynext = ystage.on_yes
        /\ ParseYesNo(yresp) = "no" => ynext = ystage.on_no
        /\ ParseYesNo(yresp) = "unclear" => (ynext = ystage.id /\ ynext # ystage.on_no)
        /\ yresp = "Yes." => ynext = ystage.on_yes
        /\ yresp = "No, fix the third item" => ynext = ystage.on_no
        /\ yresp = "maybe" => ynext = ystage.id

C2_Witness ==
    /\ ydone
    /\ yresp = "maybe"
    /\ ystage.id = "review"
    /\ ynext = "review"

YNTokenSet == { Tokens(yresp)[i] : i \in 1..Len(Tokens(yresp)) }

\* the first token is in neither token set and the response holds a token of each
MixedSignals ==
    /\ Tokens(yresp) # <<>>
    /\ Tokens(yresp)[1] \notin YesTokens \cup NoTokens
    /\ YNTokenSet \cap YesTokens # {}
    /\ YNTokenSet \cap NoTokens # {}

\* C12: a response whose first token is in neither token set and which holds
\* an affirmative token and a negative token is classified unclear: the
\* confirm stage returns its own id, neither on_yes nor on_no.
C12_MixedSignalsUnclear ==
    (ydone /\ MixedSignals) => ynext = ystage.id

(***************************************************************************)
(* Properties of SlotWriter.write (checked under SpecWrite)                *)
(***************************************************************************)
LastVal == wvals[Len(wvals)]
LastSt == wsts[Len(wsts)]
OldAtPath == GetNested(wprev, wpath)
NewAtPath == GetNested(wcur, wpath)
LiteralPath(p) == \A i \in 1..Len(p) : p[i].ix # "cur"
KeyedPath(p) == \A i \in 1..Len(p) : p[i].ix = "none"
FinalKeyed(p) == p[Len(p)].ix = "none"

\* every existing intermediate of the literal path segs is a container of the
\* kind the path expects: a mapping under a key, a sequence under an index
RECURSIVE Fits(_, _)
Fits(cur, segs) ==
    IF segs = <<>> THEN TRUE
    ELSE /\ IsDict(cur)
         /\ LET s == Head(segs)
                rest == Tail(segs)
            IN IF ~Has(cur, s.key) THEN TRUE
               ELSE LET t == cur.v[s.key]
                    IN IF s.ix = "none" THEN rest = <<>> \/ Fits(t, rest)
                       ELSE /\ IsList(t)
                            /\ s.n < Len(t.v) => (rest = <<>> \/ Fits(t.v[s.n + 1], rest))

\* every part of the path segs looks its key up in a mapping, as far as the
\* read of the path goes
RECURSIVE KeysMeetMappings(_, _)
KeysMeetMappings(cur, segs) ==
    IF segs = <<>> \/ IsNone(cur) THEN TRUE
    ELSE /\ IsDict(cur)
         /\ KeysMeetMappings(GetNested(cur, <<Head(segs)>>), Tail(segs))

\* C8: a write through a path with literal indices, whose existing
\* intermediates are containers, followed by a read of the same path returns
\* the written value, unless the old value was a list and the new one is not.
C8_WriteThenRead ==
    (/\ wvals # <<>>
     /\ LiteralPath(wpath)
     /\ Fits(wprev, wpath)
     /\ ~(IsList(OldAtPath) /\ ~IsList(LastVal)))
    => (LastSt = "ok" /\ NewAtPath = LastVal)

\* C9 as stated: a non-list value written to any path whose current value is
\* a list is appended to that list.
C9_AppendsToAnyListPath ==
    (wvals # <<>> /\ IsList(OldAtPath) /\ ~IsList(LastVal))
    => NewAtPath = List(Append(OldAtPath.v, LastVal))

\* C9 amended: on a path whose final part has no index and whose parts all
\* look their key up in a mapping, a non-list value
\* written where a list is stored is appended (the list grows by exactly one
\* and keeps its earlier elements, so N writes append N elements in write
\* order), and any other stored value is replaced by the written value.
C9_AppendsToKeyedListPath ==
    (wvals # <<>> /\ FinalKeyed(wpath) /\ KeysMeetMappings(wprev, wpath))
    => /\ (IsList(OldAtPath) /\ ~IsList(LastVal))
            => /\ LastSt = "ok"
               /\ NewAtPath = List(Append(OldAtPath.v, LastVal))
       /\ (~IsNone(OldAtPath) /\ ~(IsList(OldAtPath) /\ ~IsList(LastVal)))
            => (LastSt = "ok" /\ NewAtPath = LastVal)
       /\ (IsList(GetNested(wdata0, wpath)) /\ \A i \in 1..Len(wvals) : ~IsList(wvals[i]))
            => NewAtPath = List(GetNested(wdata0, wpath).v \o wvals)

C9_Witness ==
    /\ FinalKeyed(wpath)
    /\ GetNested(wdata0, wpath) = EmptyList
    /\ wvals = <<Str("x"), Str("y")>>
    /\ NewAtPath = List(<<Str("x"), Str("y")>>)

\* the structure a write of value through the unindexed path segs must give:
\* missing intermediates become mappings, keys off the path are kept
RECURSIVE KeyedResult(_, _, _)
KeyedResult(cur, segs, value) ==
    LET key == Head(segs).key
    IN IF Tail(segs) = <<>> THEN Put(cur, key, value)
       ELSE Put(cur, key,
                KeyedResult(IF Has(cur, key) THEN cur.v[key] ELSE EmptyDict, Tail(segs), value))

\* C10: on a dotted path without indices whose existing intermediates are
\* mappings, the write creates every missing intermediate as a mapping, sets
\* the leaf and leaves every key off the path unchanged.
C10_CreatesMappings ==
    (/\ wvals # <<>>
     /\ KeyedPath(wpath)
     /\ Fits(wprev, wpath)
     /\ ~(IsList(OldAtPath) /\ ~IsList(LastVal)))
    => (LastSt = "ok" /\ wcur = KeyedResult(wprev, wpath, LastVal))

C10_Witness ==
    /\ wprev = EmptyDict
    /\ wpath = <<SegKey("b"), SegKey("xs"), SegKey("b")>>
    /\ wvals = <<Str("x")>>
    /\ wcur = D1("b", D1("xs", D1("b", Str("x"))))


(***************************************************************************)
(* Gate routing (SpecGate)                                                 *)
(***************************************************************************)
GateValue(criterion) == GetNested(gslots, criterion.slot)

\* a field is given when the criterion dict has it
FailsMinItems(criterion) ==
    /\ "min_items" \in DOMAIN criterion
    /\ (~IsList(GateValue(criterion)) \/ Len(GateValue(criterion).v) < criterion.min_items)
FailsMaxItems(criterion) ==
    /\ "max_items" \in DOMAIN criterion
    /\ IsList(GateValue(criterion))
    /\ Len(GateValue(criterion).v) > criterion.max_items

\* the required flag is set: given and true
FailsWhenFlagSet(criterion) ==
    \/ ("required" \in DOMAIN criterion /\ criterion.required) /\ IsNone(GateValue(criterion))
    \/ FailsMinItems(criterion)
    \/ FailsMaxItems(criterion)

\* the required flag is set or omitted: an omitted flag counts as set
FailsWhenFlagNotCleared(criterion) ==
    \/ ("required" \in DOMAIN criterion => criterion.required) /\ IsNone(GateValue(criterion))
    \/ FailsMinItems(criterion)
    \/ FailsMaxItems(criterion)

GateCriteriaOf == [i \in 1..Len(gstage.criteria) |-> gstage.criteria[i]]

\* C11 as stated: the gate returns on_pass iff no criterion fails, on_fail
\* otherwise, a criterion failing exactly when its required flag is given as
\* true and the value is absent, or min_items is given and the value is not a
\* list or is shorter, or max_items is given and the value is a longer list.
C11_GateRoutesFlagSet ==
    gdone =>
        /\ gnext \in {gstage.on_pass, gstage.on_fail}
        /\ gnext = gstage.on_pass
             <=> \A i \in 1..Len(gstage.criteria) : ~FailsWhenFlagSet(gstage.criteria[i])

\* C11 amended: as above, with a criterion whose required flag is omitted
\* failing on an absent value like one whose flag is true.
C11_GateRoutes ==
    gdone =>
        /\ gnext \in {gstage.on_pass, gstage.on_fail}
        /\ gnext = gstage.on_pass
             <=> \A i \in 1..Len(gstage.criteria) : ~FailsWhenFlagNotCleared(gstage.criteria[i])

\* a gate of two criteria was routed to on_fail because min_items 1 met an
\* empty list, its other criterion (flag omitted, value present) passing
C11_Witness ==
    /\ gdone
    /\ gnext = gstage.on_fail
    /\ Len(gstage.criteria) = 2
    /\ "min_items" \in DOMAIN gstage.criteria[1]
    /\ GateValue(gstage.criteria[1]) = EmptyList
    /\ DOMAIN gstage.criteria[2] = {"slot"}
    /\ ~IsNone(GateValue(gstage.criteria[2]))


(***************************************************************************)
(* Properties of one node call (checked under SpecNode)                    *)
(***************************************************************************)
NodeText == nstate.messages[Len(nstate.messages)].content
NodeRules == SGet(nstate.pending, "clarify_if", <<>>)
RuleMatches(i) == ShouldClarify(NodeText, SGet(NodeRules[i], "condition", ""))
DefaultFollowUp == "Can you provide more detail?"

\* ingest ran on an answer to a pending question
\* the ingest node has run, without a failed lookup or write, on a state whose
\* last message is the user's and whose pending item names a save_to path
IngestedAnswer ==
    /\ ndone /\ nnode = "ingest" /\ nfail = ""
    /\ nstate.messages # <<>> /\ nstate.messages[Len(nstate.messages)].role = "human"
    /\ nstate.pending # PNone /\ "save_to" \in DOMAIN nstate.pending

NotClarifying == ~SGet(nstate.pending, "is_clarifying", FALSE)

\* pending as it was, marked is_clarifying and holding the raw answer
ClarifyingPending ==
    /\ DOMAIN nout.pending = DOMAIN nstate.pending \cup {"is_clarifying", "original_answer"}
    /\ nout.pending.is_clarifying = TRUE
    /\ nout.pending.original_answer = NodeText
    /\ \A f \in DOMAIN nstate.pending \ {"is_clarifying", "original_answer"} :
         nout.pending[f] = nstate.pending[f]

Clarifying == SGet(nstate.pending, "is_clarifying", FALSE)
OriginalAnswer == SGet(nstate.pending, "original_answer", "")
NodeSavedValue == GetNested(nout.slots, nstate.pending.save_to)

\* what a clean answer to question question_index of the stage leaves: the
\* cursor of the stage one past the question, the stage left after its last
\* one; in a stage of another type the cursor and the stage stay
AdvancedAsClean ==
    LET stage == GetStageIn(nflows[nstate.flow_id].stages, nstate.active_stage_id)
        next_idx == nstate.pending.question_index + 1
    IN IF stage.type = "questions"
       THEN /\ nout.question_cursor = CursorPut(nstate.question_cursor, stage.id, next_idx)
            /\ nout.active_stage_id =
                 IF next_idx < Len(stage.questions) THEN stage.id ELSE stage.next
       ELSE /\ nout.question_cursor = nstate.question_cursor
            /\ nout.active_stage_id = nstate.active_stage_id

\* the rest of C14: no rule is evaluated (no message is added), pending is
\* cleared and the cursor advances as for a clean answer
ClarificationAccepted ==
    /\ nout.messages = nstate.messages
    /\ nout.pending = PNone
    /\ nout.error = nstate.error
    /\ AdvancedAsClean

\* C14 as stated: with is_clarifying set, save_to receives original_answer, a
\* newline and the new answer, whatever original_answer is.
C14_AlwaysNewlineJoined ==
    (IngestedAnswer /\ Clarifying) =>
        /\ NodeSavedValue = Str(OriginalAnswer \o "\n" \o NodeText)
        /\ ClarificationAccepted

\* C14 amended: with is_clarifying set, save_to receives original_answer, a
\* newline and the new answer when original_answer is not empty, and the new
\* answer alone when it is empty or missing; no clarify_if rule is evaluated,
\* pending is cleared and the cursor advances as for a clean answer.
C14_CombinedAnswerWritten ==
    (IngestedAnswer /\ Clarifying) =>
        /\ OriginalAnswer # "" => NodeSavedValue = Str(OriginalAnswer \o "\n" \o NodeText)
        /\ OriginalAnswer = "" => NodeSavedValue = Str(NodeText)
        /\ ClarificationAccepted

\* the answer to a clarification of the last question: a rule matches it, yet
\* it is written after the original answer and the stage is left
C14_Witness ==
    /\ IngestedAnswer /\ Clarifying
    /\ OriginalAnswer = "yes"
    /\ NodeText = "maybe"
    /\ Len(NodeRules) > 0 /\ RuleMatches(1)
    /\ nstate.pending.question_index = 1
    /\ NodeSavedValue = Str("yes\nmaybe")
    /\ nout.pending = PNone
    /\ nout.active_stage_id = "end"


(***************************************************************************)
(* The clarification loop across turns (checked under SpecTurn)            *)
(***************************************************************************)
\* In the messages of b, which end with the user's new answer, the answer
\* before it, at k, drew the follow_up of a clarify_if rule of the question
\* that is still pending.
FollowedUpAt(b, k) ==
    /\ b.messages[k].role = "human"
    /\ \A j \in (k + 1)..(Len(b.messages) - 1) : b.messages[j].role = "ai"
    /\ \E i \in 1..Len(b.pending.clarify_if) :
         /\ ShouldClarify(b.messages[k].content, b.pending.clarify_if[i].condition)
         /\ b.messages[k + 1] = AIMessage(b.pending.clarify_if[i].follow_up)

AnswersFollowUp(b) ==
    /\ Len(b.messages) >= 3
    /\ LastMessage(b).role = "human"
    /\ IsPendingQuestion(b.pending)
    /\ \E k \in 1..(Len(b.messages) - 2) : FollowedUpAt(b, k)

OriginalAnswerOf(b) ==
    b.messages[CHOOSE k \in 1..(Len(b.messages) - 2) : FollowedUpAt(b, k)].content

\* C15: the turn after one that emitted a clarification follow-up accepts the
\* user's answer whatever it is: save_to holds the original answer, a newline
\* and the new answer, the cursor of the stage is past the question, and no
\* second follow-up is emitted.
C15_OneFollowUpPerQuestion ==
    (pc = "rest" /\ turns > 0 /\ AnswersFollowUp(before)) =>
        /\ AnswerAt(session.slots, before.pending.save_to,
                    OriginalAnswerOf(before) \o "\n" \o LastMessage(before).content)
        /\ CursorGet(session.question_cursor, before.active_stage_id)
             = before.pending.question_index + 1
        /\ \A j \in (Len(before.messages) + 1)..Len(session.messages) :
             \A i \in 1..Len(before.pending.clarify_if) :
                session.messages[j].content # before.pending.clarify_if[i].follow_up


(***************************************************************************)
(* Properties of _should_clarify (checked under SpecClarify)               *)
(***************************************************************************)
HasHedge(text) == \E word \in VagueWords : Contains(Lower(Strip(text)), word)
IsClearShortAnswer(text) == Lower(Strip(text)) \in ClearResponses

\* C16: for the condition "vague" the result is true iff the trimmed,
\* lowercased answer contains a vague-hedge term and is not itself a clear
\* short affirmative or negative; it is true for "maybe", "I think so",
\* "not sure" and "kind of" and false for a long concrete answer.
C16_VagueIffHedged ==
    (cdone /\ ccond = "vague") =>
        /\ cres <=> (HasHedge(ctext) /\ ~IsClearShortAnswer(ctext))
        /\ ctext \in {"maybe", "I think so", "not sure", "kind of"} => cres
        /\ ctext = "The customer places an order through the website" => ~cres


(***************************************************************************)
(* Budget exhaustion (checked under SpecTurn)                              *)
(***************************************************************************)
\* the state auto_advance_node received in the turn that started in b
AutoAdvanceInput(b) == IngestUserAnswerNode(SFlows, LoadFlowNode(SFlows, b))

\* the number of stages the auto-advance loop of that turn processed
StepsProcessed(b) ==
    LET s == AutoAdvanceInput(b)
        user_response == IF s.messages # <<>> /\ LastMessage(s).role = "human"
                         THEN LastMessage(s).content ELSE ""
    IN AALoop(SFlows[s.flow_id].stages, user_response,
              AAStart(s.active_stage_id, s.slots), s.max_auto_advance_steps).steps

BudgetExhausted(b) ==
    /\ AutoAdvanceInput(b).error = ""
    /\ StepsProcessed(b) >= b.max_auto_advance_steps

\* C17: a turn whose auto-advance used up its step budget ends with an error
\* that contains the configured limit, retry_count one higher than at the
\* start of the turn, and should_continue answering "end".
C17_BudgetExhaustionEndsTurn ==
    (pc = "rest" /\ turns > 0 /\ BudgetExhausted(before)) =>
        /\ session.error # ""
        /\ Contains(session.error, ToString(before.max_auto_advance_steps))
        /\ session.retry_count = before.retry_count + 1
        /\ ShouldContinue(session) = "end"

\* the mapping flow under a limit of 2: the turn stopped after two stages
C17_Witness ==
    /\ pc = "rest" /\ turns > 0 /\ BudgetExhausted(before)
    /\ before.flow_id = "current_state_mapping_v1"
    /\ before.max_auto_advance_steps = LowMaxSteps
    /\ session.error = "Auto-advance exceeded max steps (2)"
    /\ session.retry_count = 1


(***************************************************************************)
(* Failure semantics of the nodes (checked under SpecNode)                 *)
(***************************************************************************)
\* the node returned: what it gave back merged into a session state
NodeReturned == ndone /\ DOMAIN nout = DOMAIN nstate

\* C18: a node that meets a failure (unknown flow id, a stage id that is not
\* in the flow, an unknown action name, a failing slot write) returns with the
\* error set and retry_count one higher; after an unknown stage id the active
\* stage is the one the node received, not a fallback stage.
C18_FailuresBecomeErrors ==
    (ndone /\ nfail # "") =>
        /\ NodeReturned
        /\ nout.error # ""
        /\ nout.retry_count = nstate.retry_count + 1
        /\ nfail = "unknown_stage" => nout.active_stage_id = nstate.active_stage_id

\* auto-advance walked from "welcome" into its next, which the flow does not have
C18_Witness ==
    /\ ndone /\ nnode = "auto_advance" /\ nfail = "unknown_stage"
    /\ nstate.active_stage_id = "welcome"
    /\ nstate.retry_count = 1
    /\ nout.retry_count = 2
    /\ nout.error = "Auto-advance failed: Stage 'no_such_stage' not found in flow 'intake_sipoc_v1'"
    /\ nout.active_stage_id = "welcome"

\* every kind of failure was met by every node that can meet it
NoFailureNoError == (ndone /\ nfail = "") => nout.error = ""


(***************************************************************************)
(* The round trip through the state file (checked under SpecRound)         *)
(***************************************************************************)
\* the prompts a session has rendered, in order
Prompts(s) == SelectSeq(s.messages, LAMBDA msg : msg.role = "ai")

C20_SessionsIndependent ==
    /\ \A i \in Sessions :
         qsess[i] = RunAlone(CreateInitialState(qsess[i].flow_id), qin[i])
    /\ qcache = SFlows

\* both sessions answered the first question of the intake flow differently,
\* the second after the first had written its answer
C20_Witness ==
    /\ qsess[1].flow_id = "intake_sipoc_v1"
    /\ qin[1] = <<"", "Yes.">>
    /\ qin[2] = <<"", "No, fix the third item">>
    /\ qsess[1].slots # qsess[2].slots
    /\ GetNested(qsess[2].slots, <<SegKey("engagement"), SegKey("process_name")>>)
         = Str("No, fix the third item")
    /\ GetNested(qcache["intake_sipoc_v1"].slots, <<SegKey("engagement"), SegKey("process_name")>>)
         = NoneV
    /\ C20_SessionsIndependent


(***************************************************************************)
(* The routing function after a turn (checked under SpecTurn)              *)
(***************************************************************************)
\* C21: should_continue yields "end" exactly when the session error is set or
\* the active stage is "end", and "continue" in every other state.
C21_EndIffErrorOrTerminal ==
    /\ ShouldContinue(session) \in {"end", "continue"}
    /\ ShouldContinue(session) = "end"
         <=> (session.error # "" \/ session.active_stage_id = "end")

\* a turn has ended in an error away from the terminal stage, and the routing
\* function ends the interview
C21_Witness ==
    /\ pc = "rest" /\ turns > 0
    /\ session.error # "" /\ session.active_stage_id # "end"
    /\ ShouldContinue(session) = "end"


(***************************************************************************)
(* The path read (checked under SpecWrite, before and after the writes)    *)
(***************************************************************************)
\* what a path designates in a structure: each part names a key of a mapping,
\* a bracketed part an element of the list under that key; NoneV where a key
\* is missing, an index is not resolved or out of bounds, or the value met is
\* not a mapping (for the key) or not a list (for the index)
RECURSIVE StoredValue(_, _)
StoredValue(cur, segs) ==
    IF segs = <<>> THEN cur
    ELSE LET s == Head(segs)
             idx == ReadIndex(cur, s)
             xs == DGet(cur, s.key)
         IN IF ~IsDict(cur) \/ ~Has(cur, s.key) THEN NoneV
            ELSE IF s.ix = "none" THEN StoredValue(xs, Tail(segs))
            ELSE IF IsList(xs) /\ IsInt(idx) /\ 0 <= idx.v /\ idx.v < Len(xs.v)
                 THEN StoredValue(xs.v[idx.v + 1], Tail(segs))
                 ELSE NoneV

\* C22: the read returns None whenever a key is missing at any depth, an index
\* is out of bounds or the value met is not the container the part expects,
\* and the stored value otherwise.
C22_ReadAbsentOrStored == GetNested(wcur, wpath) = StoredValue(wcur, wpath)


(***************************************************************************)
(* Template rendering (checked under SpecRender)                           *)
(***************************************************************************)
\* what one piece of a template stands for, given what its path designates
PieceRendered(piece, value) ==
    IF "lit" \in DOMAIN piece THEN piece.lit
    ELSE IF IsNone(value) THEN "[" \o piece.text \o "]"
    ELSE ValueText(value)

RECURSIVE RenderedAsRead(_, _)
\* the pieces in order, each placeholder by the value the path read returns
RenderedAsRead(pieces, slots) ==
    IF pieces = <<>> THEN ""
    ELSE LET piece == Head(pieces)
             value == IF "lit" \in DOMAIN piece THEN NoneV ELSE GetNested(slots, piece.path)
         IN PieceRendered(piece, value) \o RenderedAsRead(Tail(pieces), slots)

RECURSIVE RenderedAsStored(_, _)
\* the pieces in order, each placeholder by the value its path designates
RenderedAsStored(pieces, slots) ==
    IF pieces = <<>> THEN ""
    ELSE LET piece == Head(pieces)
             value == IF "lit" \in DOMAIN piece THEN NoneV ELSE StoredValue(slots, piece.path)
         IN PieceRendered(piece, value) \o RenderedAsStored(Tail(pieces), slots)

\* C23: render never fails and returns the template with each placeholder
\* replaced once: by the text of the value at its trimmed path, by its JSON
\* text for a list or mapping, by [path] when the value is absent; what a
\* replacement inserts is not expanded again.
C23_RenderSubstitutesOnce ==
    tdone => /\ tout.st = "ok"
             /\ tout.text = RenderedAsStored(tpieces, tslots)

\* the same with the value the path read returns in place of the designated one
RenderFollowsRead ==
    tdone => /\ tout.st = "ok"
             /\ tout.text = RenderedAsRead(tpieces, tslots)


(***************************************************************************)
(* The loop stage in auto-advance (checked under SpecAA)                   *)
(***************************************************************************)
\* the stage the next pass of the while loop processes
AAStage == GetStageIn(aflow, alocal.stage)
AtLoopStage ==
    /\ apc = "loop" /\ AAContinues(alocal, amax)
    /\ AAStage # NoStage /\ AAStage.type = "loop"
CurrentElementIndex == DGet(ProcessParameters(alocal.slots), "current_data_element_index")
AllValidated ==
    \A i \in 1..Len(DataElements(ProcessParameters(alocal.slots)).v) :
        ~NeedsValidation(DataElements(ProcessParameters(alocal.slots)).v[i])

\* C24: a pass through the data-elements loop stage goes to on_stop when
\* current_data_element_index is null and to next when it designates an
\* element; with every element validated and the index null the pass exits.
C24_LoopRoutesByIndex ==
    [][AtLoopStage =>
         /\ alocal'.raised = ""
         /\ alocal'.slots = alocal.slots
         /\ alocal'.stage = IF IsNone(CurrentElementIndex) THEN AAStage.on_stop
                            ELSE AAStage.next]_vars

\* the selection found every element validated and cleared the index, and the
\* pass through the loop stage that followed left by on_stop
C24_Witness ==
    /\ aflow[1].type = "action" /\ aflow[1].next = "s2"
    /\ aflow[1].action = "select_next_data_element_for_validation"
    /\ aflow[2].type = "loop" /\ aflow[2].on_stop = "end" /\ aflow[2].next = "s1"
    /\ alocal.steps = 2 /\ alocal.stage = "end"
    /\ DGet(alocal.slots, "_last_action_result") = Str("all_validated")
    /\ AllValidated /\ IsNone(CurrentElementIndex)


(***************************************************************************)
(* Unclear answers to a confirmation                                       *)
(***************************************************************************)
\* state b awaits the answer to a confirmation and its last message is an
\* answer that is neither a yes nor a no
UnclearConfirmAnswer(b) ==
    /\ b.pending # PNone /\ "confirm_id" \in DOMAIN b.pending
    /\ b.messages # <<>> /\ b.messages[Len(b.messages)].role = "human"
    /\ ParseYesNo(b.messages[Len(b.messages)].content) = "unclear"

\* state a asks the confirmation of b again: no error, the slots and the
\* stage of b, the confirmation pending, its prompt as the last message
ConfirmAskedAgain(b, a) ==
    LET m == Len(b.messages)
        prompt == CHOOSE k \in 1..m : /\ b.messages[k].role = "ai"
                                      /\ \A j \in (k + 1)..m : b.messages[j].role = "human"
    IN /\ a.error = ""
       /\ a.slots = b.slots
       /\ a.active_stage_id = b.active_stage_id
       /\ a.pending = b.pending
       /\ Len(a.messages) = m + 1
       /\ a.messages[m + 1] = b.messages[prompt]

\* C25: after a turn whose answer to a pending confirmation is unclear, the
\* session has no error, the same slots and confirm stage, and the
\* confirmation is pending again with its prompt emitted again; so for every
\* unclear answer of a run of them.
C25_UnclearConfirmAsksAgain ==
    (kturns > 0 /\ UnclearConfirmAnswer(kbefore)) => ConfirmAskedAgain(kbefore, ksess)

\* the same for the first two answers given to the confirmation
FirstTwoUnclearAskAgain ==
    (kturns \in 1..2 /\ UnclearConfirmAnswer(kbefore)) => ConfirmAskedAgain(kbefore, ksess)


(***************************************************************************)
(* Writes through [current] (checked under SpecWrite)                      *)
(***************************************************************************)
\* the container cur has no index for the part s: neither sibling key, or a
\* sibling key that holds no integer
NoUsableIndex(cur, s) ==
    LET held == IF Has(cur, CurKey1(s.key)) THEN cur.v[CurKey1(s.key)]
                ELSE IF Has(cur, CurKey2(s.key)) THEN cur.v[CurKey2(s.key)]
                ELSE NoneV
    IN ~IsInt(held)

\* walking segs from cur, through what exists and through the mappings a
\* write would create, a [current] part is met in a mapping with no usable
\* index for it
RECURSIVE MeetsUnresolvedCurrent(_, _)
MeetsUnresolvedCurrent(cur, segs) ==
    IF segs = <<>> \/ ~IsDict(cur) THEN FALSE
    ELSE LET s == Head(segs)
             held == IF Has(cur, s.key) THEN cur.v[s.key] ELSE NoneV
             idx == IF s.ix = "lit" THEN s.n
                    ELSE IF Has(cur, CurKey1(s.key)) THEN cur.v[CurKey1(s.key)].v
                    ELSE cur.v[CurKey2(s.key)].v
         IN IF s.ix = "cur" /\ NoUsableIndex(cur, s) THEN TRUE
            ELSE IF s.ix = "none"
            THEN MeetsUnresolvedCurrent(IF IsNone(held) THEN EmptyDict ELSE held, Tail(segs))
            ELSE IF IsList(held) /\ 0 <= idx /\ idx < Len(held.v)
            THEN MeetsUnresolvedCurrent(held.v[idx + 1], Tail(segs))
            ELSE MeetsUnresolvedCurrent(EmptyDict, Tail(segs))

\* the same with every key before the [current] part present
RECURSIVE MeetsUnresolvedCurrentInPlace(_, _)
MeetsUnresolvedCurrentInPlace(cur, segs) ==
    IF segs = <<>> \/ ~IsDict(cur) THEN FALSE
    ELSE LET s == Head(segs)
             idx == IF s.ix = "lit" THEN s.n
                    ELSE IF Has(cur, CurKey1(s.key)) THEN cur.v[CurKey1(s.key)].v
                    ELSE cur.v[CurKey2(s.key)].v
         IN IF s.ix = "cur" /\ ~Has(cur, CurKey1(s.key)) /\ ~Has(cur, CurKey2(s.key)) THEN TRUE
            ELSE IF ~Has(cur, s.key) \/ (s.ix = "cur" /\ NoUsableIndex(cur, s)) THEN FALSE
            ELSE IF s.ix = "none" THEN MeetsUnresolvedCurrentInPlace(cur.v[s.key], Tail(segs))
            ELSE IF IsList(cur.v[s.key]) /\ 0 <= idx /\ idx < Len(cur.v[s.key].v)
            THEN MeetsUnresolvedCurrentInPlace(cur.v[s.key].v[idx + 1], Tail(segs))
            ELSE FALSE

LastWriteWasNoOp == wsts[Len(wsts)] # "raise" /\ wcur = wprev

\* C26: a write whose path has a [current] part that cannot be resolved
\* (no sibling index key in the innermost container, or a key holding no
\* usable index such as null) raises nothing and leaves the data as it was.
C26_UnresolvedCurrentIsNoOp ==
    (wsts # <<>> /\ MeetsUnresolvedCurrent(wprev, wpath)) => LastWriteWasNoOp

\* the same where both sibling keys are missing and every key before the
\* [current] part exists
MissingIndexKeyIsNoOp ==
    (wsts # <<>> /\ MeetsUnresolvedCurrentInPlace(wprev, wpath)) => LastWriteWasNoOp


(***************************************************************************)
(* The step budget of auto-advance (checked under SpecAA)                  *)
(***************************************************************************)
\* the stage the call has reached waits for the user or ends the interview
ReachedInteractive ==
    /\ alocal.raised = ""
    /\ \/ alocal.stage = "end"
       \/ /\ AAStage # NoStage
          /\ AAStage.type \in {"questions", "confirm"}

\* C27: the call returns the budget error only when the stage reached after
\* max_auto_advance_steps processed stages still needs no user input; a call
\* that reaches a questions, confirm or end stage after k <= max processed
\* stages returns without error.
C27_BudgetErrorOnlyIfStillAutomatic ==
    (apc = "done" /\ ReachedInteractive /\ alocal.steps <= amax) => aout = "ok"

\* the same when fewer stages than the budget were processed
InteractiveBelowBudgetReturns ==
    (apc = "done" /\ ReachedInteractive /\ alocal.steps < amax) => aout = "ok"


(***************************************************************************)
(* A clarification within the turn (checked under SpecTurn)                *)
(***************************************************************************)
LastText(b) == b.messages[Len(b.messages)].content
\* the rule of the pending question of b that its last message, an answer,
\* triggers (0: none)
TriggeredRule(b) ==
    IF /\ b.error = ""
       /\ b.pending # PNone /\ "save_to" \in DOMAIN b.pending
       /\ ~SGet(b.pending, "is_clarifying", FALSE)
       /\ b.messages # <<>> /\ b.messages[Len(b.messages)].role = "human"
    THEN FirstClarifyRule(SGet(b.pending, "clarify_if", <<>>), LastText(b))
    ELSE 0

\* C28: when ingest triggers a clarification the turn stops there: at the
\* rest point the rule's follow_up is the only message added and the last
\* one, and pending carries is_clarifying and the original answer.
C28_ClarificationStopsTurn ==
    (pc = "rest" /\ turns > 0 /\ TriggeredRule(before) # 0) =>
        /\ session.messages =
             Append(before.messages,
                    AIMessage(before.pending.clarify_if[TriggeredRule(before)].follow_up))
        /\ session.pending # PNone
        /\ SGet(session.pending, "is_clarifying", FALSE)
        /\ SGet(session.pending, "original_answer", "") = LastText(before)

\* what ingest leaves when it triggers a clarification
IngestAsksFollowUp ==
    (pc = "auto_advance" /\ TriggeredRule(before) # 0) =>
        /\ session.messages =
             Append(before.messages,
                    AIMessage(before.pending.clarify_if[TriggeredRule(before)].follow_up))
        /\ SGet(session.pending, "is_clarifying", FALSE)
        /\ SGet(session.pending, "original_answer", "") = LastText(before)
        /\ session.slots = before.slots


(***************************************************************************)
(* The branch stage in auto-advance (checked under SpecAA)                 *)
(***************************************************************************)
AtBranchStage ==
    /\ apc = "loop" /\ AAContinues(alocal, amax)
    /\ AAStage # NoStage /\ AAStage.type = "branch"
LastActionResult == DGet(alocal.slots, "_last_action_result")
\* the branches whose action_result_equals value is the last action result
MatchingBranches ==
    { i \in 1..Len(AAStage.branches) :
        /\ "action_result_equals" \in DOMAIN AAStage.branches[i].when
        /\ Str(AAStage.branches[i].when.action_result_equals.value) = LastActionResult }

\* C29: a pass through a branch stage goes to the next of the first branch,
\* in list order, whose action_result_equals value is the last action result
\* in slots, and to the first branch's next when none matches; it sets no
\* error.
C29_BranchRoutesFirstMatch ==
    [][(AtBranchStage /\ AAStage.branches # <<>>) =>
         /\ alocal'.raised = ""
         /\ alocal'.slots = alocal.slots
         /\ \A i \in MatchingBranches :
              (\A j \in MatchingBranches : i <= j) => alocal'.stage = AAStage.branches[i].next
         /\ MatchingBranches = {} => alocal'.stage = AAStage.branches[1].next]_vars

\* the selection returned all_validated; of the two branches that expect it
\* the earlier one, which is not the first of the list, was taken
C29_Witness ==
    /\ aflow[1].type = "action" /\ aflow[1].next = "s2"
    /\ aflow[1].action = "select_next_data_element_for_validation"
    /\ aflow[2].type = "branch" /\ Len(aflow[2].branches) = 3
    /\ aflow[2].branches[2].next = "s1" /\ aflow[2].branches[3].next = "end"
    /\ DGet(alocal.slots, "_last_action_result") = Str("all_validated")
    /\ alocal.steps = 2 /\ alocal.stage = "s1" /\ alocal.raised = ""

\* no branch expects the result held in slots, or none is held: the first
\* branch was taken
C29_DefaultTaken ==
    /\ aflow[1].type = "branch" /\ Len(aflow[1].branches) = 2
    /\ aflow[1].branches[1].next = "s2"
    /\ ~Has(alocal.slots, "_last_action_result")
    /\ alocal.steps = 1 /\ alocal.stage = "s2"


(***************************************************************************)
(* The action stage in auto-advance (checked under SpecAA)                 *)
(***************************************************************************)
AtActionStage ==
    /\ apc = "loop" /\ AAContinues(alocal, amax)
    /\ AAStage # NoStage /\ AAStage.type = "action"
\* what the action function of the stage returns on the slots of the call
ActionReturn ==
    IF AAStage.action = "select_next_data_element_for_validation"
    THEN SelectNextDataElementForValidation(alocal.slots)
    ELSE CommitValidatedDataElement(alocal.slots)

\* C30: after a pass through an action stage the slots are the slots the
\* action returned, with its result code put under _last_action_result:
\* "success" when the action returned slots alone; either way the code is a
\* text and the pass goes on to the stage's next.
C30_ActionResultKept ==
    [][AtActionStage =>
         /\ alocal'.raised = ""
         /\ alocal'.stage = AAStage.next
         /\ \A key \in DOMAIN ActionReturn.slots.v \ {"_last_action_result"} :
              Has(alocal'.slots, key) /\ alocal'.slots.v[key] = ActionReturn.slots.v[key]
         /\ DOMAIN alocal'.slots.v = DOMAIN ActionReturn.slots.v \cup {"_last_action_result"}
         /\ alocal'.slots.v["_last_action_result"] =
              Str(IF ActionReturn.code = SlotsOnly THEN "success" ELSE ActionReturn.code)]_vars

\* commit_validated_data_element, which returns slots alone, marked the
\* selected element validated and left the code "success"
C30_Witness ==
    /\ aflow[1].type = "action" /\ aflow[1].action = "commit_validated_data_element"
    /\ alocal.steps = 1 /\ alocal.stage = aflow[1].next
    /\ DGet(alocal.slots, "_last_action_result") = Str("success")
    /\ AllValidated = FALSE
    /\ Truthy(DataElements(ProcessParameters(alocal.slots)).v[1].v["validated"])


(***************************************************************************)
(* The loop stage's exit decision (checked under SpecLoop)                 *)
(***************************************************************************)
SignalSlotOf(stage) == SGet(SGet(stage, "stop_condition", [none |-> TRUE]), "signal_slot", "")
SignalValue(stage, slots) == GetNestedValue(slots, SignalSlotOf(stage))
\* C31: the route a loop stage takes is decided by the value stored at its
\* own signal slot: two slot structures with the same value there take the
\* same route, whatever the signal slot is.
C31_ExitDecidedBySignalSlot ==
    (ldone /\ SignalSlotOf(lstage) # ""
       /\ SignalValue(lstage, lslots[1]) = SignalValue(lstage, lslots[2]))
    => lroute[1] = lroute[2]

\* what the code decides by: the current data element index when the signal
\* slot names data_elements, and nothing otherwise
LoopDecidedByIndex ==
    ldone => \A i \in 1..2 :
        lroute[i] = IF /\ Contains(SignalSlotOf(lstage), "data_elements")
                       /\ IsNone(DGet(ProcessParameters(lslots[i]), "current_data_element_index"))
                    THEN lstage.on_stop ELSE lstage.next


(***************************************************************************)
(* The cursor reset of copy_next_step_to_buffer (checked under             *)
(* SpecWorkflow)                                                           *)
(***************************************************************************)
\* the turn's auto_advance_node started at the copy action and returned
\* without an error
CopyExecuted ==
    /\ xturns > 0
    /\ xauto.error = "" /\ xauto.active_stage_id = "workflow_copy_next_step"
    /\ xsess.error = ""

\* workflow_ask_next_step and the workflow_step_capture__* stages
AskAndCaptureStages ==
    {"workflow_ask_next_step"} \cup
    { "workflow_step_capture__" \o name :
        name \in {"step_description", "owner", "inputs", "outputs", "systems",
                  "decision_wait_exception", "wait_exception", "decision_outcomes"} }

StoredIndex(cur, s) ==
    IF ~IsDict(cur) THEN NoneV
    ELSE IF Has(cur, CurKey1(s.key)) THEN cur.v[CurKey1(s.key)]
    ELSE IF Has(cur, CurKey2(s.key)) THEN cur.v[CurKey2(s.key)]
    ELSE NoneV

\* the container a part leads to: the value under the key, or the element
\* of the list under the key
Below(cur, s, n) ==
    LET held == IF IsDict(cur) THEN DGet(cur, s.key) ELSE NoneV
    IN IF s.ix = "none" THEN held
       ELSE IF IsList(held) /\ 0 <= n /\ n < Len(held.v) THEN held.v[n + 1]
       ELSE NoneV

\* every [current] part of segs meets a container that stores an integer
\* index (not negative) for it
RECURSIVE CurrentResolves(_, _)
CurrentResolves(cur, segs) ==
    IF segs = <<>> THEN TRUE
    ELSE LET s == Head(segs)
             i == StoredIndex(cur, s)
         IN IF s.ix = "cur"
            THEN IsInt(i) /\ i.v >= 0 /\ CurrentResolves(Below(cur, s, i.v), Tail(segs))
            ELSE CurrentResolves(Below(cur, s, s.n), Tail(segs))

\* segs with every [current] written as the literal index stored for it
RECURSIVE WithLiteralIndex(_, _)
WithLiteralIndex(cur, segs) ==
    IF segs = <<>> THEN <<>>
    ELSE LET s == Head(segs)
             n == IF s.ix = "cur" THEN StoredIndex(cur, s).v ELSE s.n
         IN <<IF s.ix = "cur" THEN SegIdx(s.key, n) ELSE s>>
            \o WithLiteralIndex(Below(cur, s, n), Tail(segs))

ThroughCurrent(segs) == \E j \in 1..Len(segs) : segs[j].ix = "cur"

\* a read through [current] returns what the read with the literal index returns
ReadAsLiteral ==
    (ThroughCurrent(wpath) /\ CurrentResolves(wcur, wpath))
    => GetNested(wcur, wpath) = GetNested(wcur, WithLiteralIndex(wcur, wpath))

\* a write through [current] does what the write with the literal index does
WriteAsLiteral ==
    (wvals # <<>> /\ ThroughCurrent(wpath) /\ CurrentResolves(wprev, wpath))
    => /\ SlotWrite(wprev, WithLiteralIndex(wprev, wpath), LastVal).d = wcur
       /\ SlotWrite(wprev, WithLiteralIndex(wprev, wpath), LastVal).st = wsts[Len(wsts)]

\* after a write through [current] the read through the same path returns
\* the written value
ReadsBackWritten ==
    (wvals # <<>> /\ ThroughCurrent(wpath) /\ CurrentResolves(wprev, wpath))
    => GetNested(wcur, wpath) = LastVal

LastWriteAppends ==
    /\ wpath[Len(wpath)].ix = "none"
    /\ IsList(GetNested(wprev, wpath))
    /\ ~IsList(LastVal)

\* every indexed part of segs meets a mapping in which its name is missing
\* or holds a list
RECURSIVE IndexedOnLists(_, _)
IndexedOnLists(cur, segs) ==
    IF segs = <<>> \/ IsNone(cur) THEN TRUE
    ELSE LET s == Head(segs)
             n == IF s.ix = "cur" THEN StoredIndex(cur, s).v ELSE s.n
         IN /\ s.ix # "none" => (IsDict(cur) /\ (Has(cur, s.key) => IsList(cur.v[s.key])))
            /\ IndexedOnLists(Below(cur, s, n), Tail(segs))

PositiveAdjectives == {"good", "fine", "right", "ok", "correct", "accurate", "true"}

\* the response holds the token not and a positive adjective, and its first
\* token is not an affirmative token
NotWithPositive ==
    /\ Tokens(yresp) # <<>>
    /\ Tokens(yresp)[1] \notin YesTokens
    /\ "not" \in YNTokenSet
    /\ YNTokenSet \cap PositiveAdjectives # {}

\* C34: a response with the token not and a positive adjective whose first
\* token is not affirmative is never classified as affirmative: the confirm
\* stage does not route to on_yes.
C34_NotPositiveNeverYes ==
    (ydone /\ NotWithPositive) => ynext # ystage.on_yes

\* what the negation rule covers: not with accurate, correct or true, when
\* no opener rule comes first
NotAccurateIsNo ==
    (ydone /\ NotWithPositive
       /\ YNTokenSet \cap {"accurate", "correct", "true"} # {}
       /\ Tokens(yresp)[1] \notin {"i", "sounds", "looks"})
    => ynext = ystage.on_no

(***************************************************************************)
(* The order of the steps within a turn (checked under SpecTurn)           *)
(***************************************************************************)
\* the step that follows a step of the turn
StepAfter(step) ==
    IF step = "rest" THEN "load"
    ELSE IF step = "load" THEN "ingest"
    ELSE IF step = "ingest" THEN "auto_advance"
    ELSE IF step = "auto_advance" THEN "render"
    ELSE "rest"

\* the element the turn's answer was about, by its position
AnsweredElement(field) ==
    <<SegKey("process_parameters"),
      SegIdx("data_elements",
             GetNested(before.slots, <<SegKey("process_parameters"),
                                       SegKey("current_data_element_index")>>).v),
      SegKey(field)>>

\* C35: within every turn the steps run in the order load, ingest,
\* auto-advance, render, each on the state the previous step left: an
\* accepted answer is in slots when ingest is done, so before auto-advance
\* executes an action stage (the commit action marks the element the answer
\* defined) and before render fills the next prompt's template (the prompt
\* names the answer), and render asks the question at the cursor that ingest
\* and auto-advance left, with the template filled from the slots they left.
C35_StepsInOrderOnLatestState ==
    /\ [][pc' = StepAfter(pc)]_vars
    /\ [](pc \in {"auto_advance", "render"} /\ Accepted(before) /\ session.error = ""
          => AnswerAt(session.slots,
                      IF before.active_stage_id = "data_element_questions"
                      THEN AnsweredElement("definition") ELSE before.pending.save_to,
                      LastMessage(before).content))
    /\ [](pc = "rest" /\ turns > 0 /\ Accepted(before) /\ session.error = ""
          /\ before.active_stage_id = "data_element_questions"
          => /\ GetNested(session.slots, AnsweredElement("definition"))
                  = Str(LastMessage(before).content)
             /\ GetNested(session.slots, AnsweredElement("validated")) = Bool(TRUE))
    /\ [](pc = "rest" /\ turns > 0 /\ Accepted(before) /\ session.error = ""
          /\ before.pending.question_id = "process_name"
          /\ IsPendingQuestion(session.pending)
          => session.pending.ask = "What type of organization runs "
                                      \o LastMessage(before).content \o "?")
    /\ [][ (pc = "render" /\ session.error = "" /\ IsPendingQuestion(session'.pending)
            /\ ~IsPendingQuestion(session.pending))
           => LET idx == CursorGet(session.question_cursor, session.active_stage_id)
              IN /\ session'.pending.question_index = idx
                 /\ session'.pending.ask = Render(QuestionsOf(session)[idx + 1].ask,
                                                  session.slots)
                 /\ LastMessage(session') = AIMessage(session'.pending.ask) ]_vars

\* a turn whose answer ingest wrote and whose cursor ingest moved ended with
\* the second question asked, the answer in its text
C35_Witness ==
    /\ pc = "rest" /\ turns > 0 /\ Accepted(before) /\ session.error = ""
    /\ before.pending.question_id = "process_name"
    /\ CursorGet(before.question_cursor, before.active_stage_id) = 0
    /\ IsPendingQuestion(session.pending)
    /\ session.pending.question_index = 1
    /\ session.pending.ask = "What type of organization runs No, fix the third item?"

(***************************************************************************)
(* A completed questions stage entered again (checked under SpecTurn)      *)
(***************************************************************************)
\* render is about to run at a questions stage that an earlier answer
\* completed: ingest left it with its cursor at the number of its questions
AtCompletedStage ==
    /\ pc = "render" /\ session.error = ""
    /\ StageTypeOf(session) = "questions"
    /\ session.active_stage_id \in DOMAIN session.question_cursor
    /\ session.question_cursor[session.active_stage_id] >= Len(QuestionsOf(session))
    /\ ~DetectLoop(session.messages)

\* C37: a questions stage that was completed earlier and is entered again
\* asks its questions again from index 0: render stays at the stage and
\* publishes its first question, it does not skip the stage.
C37_ReenteredStageAsksFromStart ==
    [][ AtCompletedStage
        => /\ session'.active_stage_id = session.active_stage_id
           /\ IsPendingQuestion(session'.pending)
           /\ session'.pending.question_index = 0
           /\ LastMessage(session') = AIMessage(session'.pending.ask) ]_vars

\* what render does there: the transition message, no pending interaction,
\* the stage's next
CompletedStageIsSkipped ==
    [][ AtCompletedStage
        => /\ session'.active_stage_id = SGet(StageOf(session), "next", "end")
           /\ session'.pending = PNone
           /\ LastMessage(session') = AIMessage(MovingOn) ]_vars

(***************************************************************************)
(* Specification SpecProgress: sessions of the interview graph with a user *)
(* who answers every prompt: an answer no clarify rule of the pending      *)
(* question catches, "Yes." to every confirm.  The driver keeps invoking   *)
(* the graph until an error or the end; the nodes read the last message    *)
(* and the last RecentWindow messages only, and auto_advance_count is only *)
(* added to, never read: the older history and the count of the earlier    *)
(* turns are left out of the state.                                        *)
(***************************************************************************)
ProgressFlows == {"intake_sipoc_v1", "current_state_mapping_v1"}
ProgressAnswers == {"Order handling", "The order desk"}

InitProgress ==
    /\ \E flow_id \in ProgressFlows : session = CreateInitialState(flow_id)
    /\ before = session
    /\ pc = "rest"
    /\ turns = 0
    /\ IdleWrite /\ IdleYN /\ IdleAA /\ IdleGate /\ IdleNode /\ IdleClarify /\ IdleRound /\ IdleSessions /\ IdleRender /\ IdleConfirm /\ IdleLoop /\ IdleWorkflow

\* messages[-RecentWindow:]
LastMessages(messages) ==
    IF Len(messages) > RecentWindow
    THEN SubSeq(messages, Len(messages) - RecentWindow + 1, Len(messages))
    ELSE messages

\* the first graph.invoke of the driver
FirstInvoke ==
    /\ pc = "rest" /\ turns = 0
    /\ before' = session
    /\ pc' = "load" /\ turns' = 1
    /\ UNCHANGED <<session, wvars, yvars, avars, gvars, nvars, cvars, rvars, qvars, tvars, kvars, lvars, xvars>>

\* the user's reply and the next graph.invoke
CooperativeTurn ==
    /\ pc = "rest" /\ turns > 0
    /\ session.error = ""
    /\ ~(session.active_stage_id = "end" /\ session.pending = PNone)
    /\ \E text \in ProgressAnswers \cup {"Yes."} :
         /\ IF session.pending = PNone THEN text = "Order handling"
            ELSE IF IsPendingConfirm(session.pending) THEN text = "Yes."
            ELSE text \in ProgressAnswers
         /\ (session.pending # PNone /\ IsPendingQuestion(session.pending))
            => FirstClarifyRule(session.pending.clarify_if, text) = 0
         /\ session' = [session EXCEPT
                          !.messages = Append(LastMessages(@), HumanMessage(text)),
                          !.auto_advance_count = 0]
    /\ before' = session'
    /\ pc' = "load"
    /\ UNCHANGED <<turns, wvars, yvars, avars, gvars, nvars, cvars, rvars, qvars, tvars, kvars, lvars, xvars>>

NextProgress ==
    FirstInvoke \/ CooperativeTurn \/ LoadFlow \/ IngestUserAnswer \/ AutoAdvance \/ RenderPrompt

\* the driver's loop goes on: no error, and not at the end with nothing pending
CanProceed ==
    \/ pc # "rest"
    \/ turns = 0
    \/ session.error = "" /\ ~(session.active_stage_id = "end" /\ session.pending = PNone)

\* a step of NextProgress: each one moves the turn to its next position
TurnStep == CanProceed /\ pc' = StepAfter(pc)

\* graph.invoke runs the four nodes to the end of the turn, and the user
\* keeps answering
SpecProgress == InitProgress /\ [][NextProgress]_vars /\ WF_pc(TurnStep)

(***************************************************************************)
(* Forward progress (checked under SpecProgress)                           *)
(***************************************************************************)
AtEnd == pc = "rest" /\ session.active_stage_id = "end" /\ session.error = ""

\* C36: in a flow whose cycles all pass through an interactive stage and
\* whose stages all reach end, with a user who gives an accepted answer to
\* every question and a definite yes to every confirm, the session reaches
\* the stage end after finitely many turns with no error set.
C36_CooperativeSessionReachesEnd == <>AtEnd

\* the intake flow, whose completed stages are not entered again when every
\* confirm is answered yes, gets there
IntakeReachesEnd == (session.flow_id = "intake_sipoc_v1") ~> AtEnd

\* the data element flow never gets past the second element: the session
\* never asks about the statuses
MappingNeverLeavesLoop ==
    (session.flow_id = "current_state_mapping_v1")
    => session.active_stage_id \notin {"status_model_capture", "end"}

(***************************************************************************)
(* The turn after a loop-detection trip (checked under SpecTurn)           *)
(***************************************************************************)
\* the last bot message is the transition message of a render call that the
\* loop detector tripped, and only the user has spoken since
TrippedLastTurn(messages) ==
    \E k \in 1..Len(messages) :
      /\ messages[k] = AIMessage(MovingOn)
      /\ \A j \in (k + 1)..Len(messages) : messages[j].role = "human"
      /\ DetectLoop(SubSeq(messages, 1, k - 1))

\* render is about to run at a stage that has something to ask
AtAskingStage ==
    /\ pc = "render" /\ session.error = ""
    /\ \/ StageTypeOf(session) = "confirm"
       \/ /\ StageTypeOf(session) = "questions"
          /\ CursorGet(session.question_cursor, session.active_stage_id)
               < Len(QuestionsOf(session))

\* C38: the turn after a loop-detection trip renders the prompt of the stage
\* then active and publishes its pending interaction: the repeated messages
\* still in the window force no further advance.
C38_TripSkipsOneStage ==
    [][ (AtAskingStage /\ TrippedLastTurn(session.messages))
        => /\ session'.active_stage_id = session.active_stage_id
           /\ session'.pending # PNone
           /\ LastMessage(session') # AIMessage(MovingOn) ]_vars

\* what render does while the repeats are in the window: it forces the
\* advance again
TripRepeatsWhileInWindow ==
    [][ (AtAskingStage /\ TrippedLastTurn(session.messages)
           /\ DetectLoop(session.messages))
        => /\ session'.active_stage_id = SGet(StageOf(session), "next", "end")
           /\ session'.pending = PNone
           /\ LastMessage(session') = AIMessage(MovingOn) ]_vars

(***************************************************************************)
(* The stage moves of a turn (checked under SpecConfirm)                   *)
(***************************************************************************)
SuccessorFields == {"next", "on_yes", "on_no", "on_pass", "on_fail", "on_stop"}

\* the targets the stage declares
DeclaredTargets(stage) ==
    { stage[f] : f \in SuccessorFields \cap DOMAIN stage }
      \cup { SGet(stage, "branches", <<>>)[i].next :
               i \in 1..Len(SGet(stage, "branches", <<>>)) }

\* from stays put or moves to a target it declares
AlongEdge(stages, from, to) ==
    to = from \/ to \in DeclaredTargets(GetStageIn(stages, from))

\* the stage ids that declared edges lead to from the ids of set
RECURSIVE ReachedFrom(_, _)
ReachedFrom(stages, set) ==
    LET more == set \cup UNION { DeclaredTargets(GetStageIn(stages, id)) : id \in set }
    IN IF more = set THEN set ELSE ReachedFrom(stages, more)

\* the states between the nodes of the last turn
AfterIngest == IngestUserAnswerNode(SFlows, LoadFlowNode(SFlows, kbefore))
AfterAutoAdvance == AutoAdvanceNode(SFlows, AfterIngest)

\* C39: active_stage_id only stays put or moves along an edge declared on
\* the stage being left, in every step of the turn: ingest moves along one
\* edge or none, auto-advance along a path of edges, render (which moves the
\* stage only in a forced advance) along one edge or none; so a session
\* leaves a confirm stage only to its on_yes or on_no target.
C39_StageMovesAlongDeclaredEdges ==
    kturns > 0
    => LET stages == SFlows[ksess.flow_id].stages
       IN /\ AlongEdge(stages, kbefore.active_stage_id, AfterIngest.active_stage_id)
          /\ AfterAutoAdvance.active_stage_id
               \in ReachedFrom(stages, {AfterIngest.active_stage_id})
          /\ ksess = RenderPromptNode(SFlows, AfterAutoAdvance)
          /\ AlongEdge(stages, AfterAutoAdvance.active_stage_id, ksess.active_stage_id)

\* the moves of ingest and auto-advance follow declared edges, and render
\* leaves the confirm stage only in a forced advance, to the stage end
OnlyForcedAdvanceLeavesEdges ==
    kturns > 0
    => LET stages == SFlows[ksess.flow_id].stages
           stage == GetStageIn(stages, AfterAutoAdvance.active_stage_id)
       IN /\ AlongEdge(stages, kbefore.active_stage_id, AfterIngest.active_stage_id)
          /\ AfterAutoAdvance.active_stage_id
               \in ReachedFrom(stages, {AfterIngest.active_stage_id})
          /\ \/ AlongEdge(stages, AfterAutoAdvance.active_stage_id, ksess.active_stage_id)
             \/ /\ DetectLoop(AfterAutoAdvance.messages)
                /\ SGet(stage, "type", "") = "confirm"
                /\ ksess.active_stage_id = "end"
                /\ ksess.pending = PNone
                /\ LastMessage(ksess) = AIMessage(MovingOn)

(***************************************************************************)
(* An auto-advance that ends in an error (checked under SpecAA)            *)
(***************************************************************************)
\* the call that is at these locals ends in the budget-exhaustion error or
\* in a caught failure
EndsInError == AAOutcome(AALoop(aflow, "", alocal, amax), amax) \in {"failed", "budget"}

\* C40: when auto-advance ends in the budget-exhaustion error or in a caught
\* failure, none of its traversal is committed: no pass of its loop changes
\* what the session's slots hold, compared deeply, even if the pass executes
\* an action; the session's slots are as they were when the call started.
C40_FailedAutoAdvanceCommitsNothing ==
    [][ (apc = "loop" /\ EndsInError) => alocal'.seen = alocal.seen ]_vars

\* what such a call leaves in the session's slots: a pass changes them only
\* by an action that works on a shallow copy, and then under
\* process_parameters only
FailedAutoAdvanceChangesByAction ==
    [][ (apc = "loop" /\ EndsInError /\ alocal'.seen # alocal.seen)
        => /\ SGet(GetStageIn(aflow, alocal.stage), "type", "") = "action"
           /\ \A key \in DOMAIN alocal.seen.v \ {"process_parameters"} :
                 alocal'.seen.v[key] = alocal.seen.v[key] ]_vars

\* the fields the node returns on an error are error and retry_count: the
\* stage, the cursor and the count stay (checked under SpecTurn)
FailedAutoAdvanceKeepsStage ==
    [][ (pc = "auto_advance" /\ session'.error # session.error)
        => /\ session'.active_stage_id = session.active_stage_id
           /\ session'.question_cursor = session.question_cursor
           /\ session'.auto_advance_count = session.auto_advance_count ]_vars

====
